---------------------------- MODULE Spec2Model ----------------------------
(***************************************************************************)
(* Verification model of the red_sdl widget library: the deferred-mutation *)
(* queue (StateManager), the Grid layout engine, the Panel container and   *)
(* the stateful leaf widgets, as implemented under src/lib/src.            *)
(*                                                                         *)
(* Pixel values are Rust f32.  They are modelled bit-exactly as IEEE-754   *)
(* binary32 numbers (round to nearest, ties to even) in the section        *)
(* "binary32 arithmetic"; a value is a pair <<m, e>> meaning m * 2^e with  *)
(* 2^23 <= |m| < 2^24, or <<0, 0>> for zero.                               *)
(***************************************************************************)
EXTENDS Integers, Sequences, FiniteSets, TLC

(***************************************************************************)
(* binary32 arithmetic (the semantics of Rust's f32 +, -, *, /, <, ==).    *)
(* The model never produces NaN, infinities or subnormals: every Ratio is  *)
(* positive, every magnitude lies between 2^-40 and 2^40.                  *)
(***************************************************************************)
TwoP23 == 2^23
TwoP24 == 2^24

FZero == <<0, 0>>

\* the result of 0.0 / 0.0; only the operators that say so take it
NaN == <<0, 1>>

Abs(n) == IF n < 0 THEN 0 - n ELSE n

Sgn(n) == IF n < 0 THEN 0 - 1 ELSE IF n = 0 THEN 0 ELSE 1

\* number of significant bits of M, 0 < M < 2^31
RECURSIVE BitLenFrom(_, _)
BitLenFrom(M, L) == IF M < 2^L THEN L ELSE BitLenFrom(M, L + 1)

BitLen(M) ==
    IF M >= 2^30 THEN 31
    ELSE IF M >= 2^29 THEN 30
    ELSE IF M >= 2^23 THEN BitLenFrom(M, 24)
    ELSE BitLenFrom(M, 1)

\* sign * (M + sticky-fraction) * 2^e rounded to nearest even, normalised;
\* L is the number of significant bits of M.  sticky = 1 says that the exact
\* value lies strictly between M and M+1; callers pass it only with L >= 26.
RoundAt(sign, M, e, sticky, L) ==
    IF L <= 24 THEN <<sign * M * 2^(24 - L), e - (24 - L)>>
    ELSE LET s    == L - 24
             q    == M \div 2^s
             rem  == M % 2^s
             half == 2^(s - 1)
             up   == \/ rem > half
                     \/ rem = half /\ sticky = 1
                     \/ rem = half /\ sticky = 0 /\ q % 2 = 1
         IN IF up /\ q + 1 = TwoP24 THEN <<sign * TwoP23, e + s + 1>>
            ELSE IF up THEN <<sign * (q + 1), e + s>>
            ELSE <<sign * q, e + s>>

RoundNorm(sign, M, e, sticky) ==
    IF M = 0 THEN FZero ELSE RoundAt(sign, M, e, sticky, BitLen(M))

FromInt(n) == RoundNorm(Sgn(n), Abs(n), 0, 0)

FNeg(a) == <<0 - a[1], a[2]>>

\* a + b with a[2] >= b[2], both non-zero
AddOrdered(a, b) ==
    LET d == a[2] - b[2] IN
    IF d <= 6
    THEN LET M == a[1] * 2^d + b[1] IN RoundNorm(Sgn(M), Abs(M), b[2], 0)
    ELSE LET k      == d - 6
             big    == Abs(a[1]) * 64
             small  == IF k >= 25 THEN 0 ELSE Abs(b[1]) \div 2^k
             sticky == IF k >= 25 THEN 1
                       ELSE IF Abs(b[1]) % 2^k = 0 THEN 0 ELSE 1
             same   == Sgn(a[1]) = Sgn(b[1])
             M      == IF same THEN big + small
                       ELSE IF sticky = 1 THEN big - small - 1
                       ELSE big - small
         IN RoundNorm(Sgn(a[1]), M, a[2] - 6, sticky)

FAdd(a, b) ==
    IF a[1] = 0 THEN b
    ELSE IF b[1] = 0 THEN a
    ELSE IF a[2] >= b[2] THEN AddOrdered(a, b) ELSE AddOrdered(b, a)

FSub(a, b) == FAdd(a, FNeg(b))

FMul(a, b) ==
    IF a[1] = 0 \/ b[1] = 0 THEN FZero
    ELSE LET ma  == Abs(a[1])
             mb  == Abs(b[1])
             ah  == ma \div 4096
             al  == ma % 4096
             bh  == mb \div 4096
             bl  == mb % 4096
             mid == ah * bl + al * bh
             lof == al * bl + (mid % 4096) * 4096
             lo  == lof % TwoP24
             hi  == ah * bh + mid \div 4096 + lof \div TwoP24
             M   == hi * 64 + lo \div 262144
             st  == IF lo % 262144 = 0 THEN 0 ELSE 1
         IN RoundNorm(Sgn(a[1]) * Sgn(b[1]), M, a[2] + b[2] + 18, st)

\* b non-zero
FDiv(a, b) ==
    IF a[1] = 0 THEN FZero
    ELSE LET ma == Abs(a[1])
             mb == Abs(b[1])
             q0 == ma \div mb
             r0 == ma % mb
             q1 == q0 * 128 + (r0 * 128) \div mb
             r1 == (r0 * 128) % mb
             q2 == q1 * 128 + (r1 * 128) \div mb
             r2 == (r1 * 128) % mb
             q3 == q2 * 128 + (r2 * 128) \div mb
             r3 == (r2 * 128) % mb
             q4 == q3 * 128 + (r3 * 128) \div mb
             r4 == (r3 * 128) % mb
             st == IF r4 = 0 THEN 0 ELSE 1
         IN RoundNorm(Sgn(a[1]) * Sgn(b[1]), q4, a[2] - b[2] - 28, st)

\* the sign of a - b; 2 when one of them is not a number, so that every
\* comparison with it is false
FCmp(a, b) ==
    IF a = NaN \/ b = NaN THEN 2
    ELSE IF a[1] = 0 \/ b[1] = 0 \/ Sgn(a[1]) # Sgn(b[1]) THEN Sgn(Sgn(a[1]) - Sgn(b[1]))
    ELSE IF a[2] # b[2] THEN Sgn(a[1]) * Sgn(a[2] - b[2])
    ELSE Sgn(a[1] - b[1])

\* a comparison that takes equal for less
FLtOrEq(a, b) == FCmp(a, b) <= 0

FLt(a, b) == FCmp(a, b) < 0

FLe(a, b) == FCmp(a, b) <= 0


(***************************************************************************)
(* State.                                                                  *)
(*   funcs, smLast : a stand-alone StateManager and the record of the last *)
(*                   call made on it (state_manager.rs).                   *)
(*   root          : the root widget with everything it owns.              *)
(*   counter       : the shared application state of the click tests, the  *)
(*                   usize the Buttons increment.                          *)
(*   last          : the last call made on the root widget: its kind, its  *)
(*                   argument, its Result, the calls it made in order, and *)
(*                   for update the queue it found and what the children   *)
(*                   queued during the call; rep counts how many times in  *)
(*                   a row the same event has now been delivered.          *)
(*   told          : the position of the last ElementMove and the size of  *)
(*                   the last ElementResize delivered to the root.         *)
(*   testPc        : how many steps of grid_test::test_grid_click the run  *)
(*                   has performed so far (0 - 1 once it left the script). *)
(*   clipboard     : the text of the system clipboard (clipboard.rs), a    *)
(*                   sequence of characters.                               *)
(***************************************************************************)
VARIABLES funcs, smLast, root, counter, last, told, testPc, clipboard

vars == <<funcs, smLast, root, counter, last, told, testPc, clipboard>>

(***************************************************************************)
(* Bounds of the model.                                                    *)
(***************************************************************************)
MaxQueue == 3

MaxCounter == 5

MaxCols == 3

MaxCoord == 64

MaxRep == 3

(***************************************************************************)
(* StateManager (state_manager.rs).                                        *)
(* A queued operation is a boxed FnOnce(Args) -> Result<()>.  Grid's Args  *)
(* are MutRefs to (parent, cols, rows, elements); tgt is what they point   *)
(* to.  The closures the model queues:                                     *)
(*   "ok"      returns Ok and changes nothing                              *)
(*   "fail"    returns Err                                                 *)
(*   "adder"   holds a MutRef to its container (as refs.rs permits),       *)
(*             pushes one more "ok" closure onto the same queue, returns Ok*)
(*   "pushcol" cols.push(spec)        "popcol"  cols.pop()                 *)
(*   "insert"  elements.insert(pos, Button with the zero rect)             *)
(*   "remove"  elements.remove(pos)                                        *)
(*   "pushsub" subs.push(widget)      "popsub"  subs.pop()   (Panel)       *)
(***************************************************************************)
SMOps == {[kind |-> "ok", id |-> 1], [kind |-> "ok", id |-> 2],
          [kind |-> "fail", id |-> 3], [kind |-> "adder", id |-> 4]}

AddedOp == [kind |-> "ok", id |-> 5]

ArgVals == {"a1", "a2"}

\* lib.rs zero()
zero == [x |-> FZero, y |-> FZero, width |-> FZero, height |-> FZero]

NewButton == [kind |-> "Button", surface |-> zero]

Restrict(f, S) == [k \in S |-> f[k]]

\* the one element of a singleton; The({e(x) : x \in {v}}) is e with x bound to v
The(S) == CHOOSE x \in S : TRUE

\* func(args): the closure's result, what it left behind the MutRefs, and
\* what it pushed onto the queue
RunOp(func, args, tgt) ==
    CASE func.kind = "ok"      -> [ok |-> TRUE,  added |-> <<>>, tgt |-> tgt]
      [] func.kind = "fail"    -> [ok |-> FALSE, added |-> <<>>, tgt |-> tgt]
      [] func.kind = "adder"   -> [ok |-> TRUE,  added |-> <<AddedOp>>, tgt |-> tgt]
      [] func.kind = "pushcol" ->
            [ok |-> TRUE, added |-> <<>>,
             tgt |-> [tgt EXCEPT !.cols = Append(@, func.spec)]]
      [] func.kind = "popcol"  ->
            [ok |-> TRUE, added |-> <<>>,
             tgt |-> [tgt EXCEPT !.cols = IF @ = <<>> THEN @
                                          ELSE SubSeq(@, 1, Len(@) - 1)]]
      [] func.kind = "insert"  ->
            [ok |-> TRUE, added |-> <<>>,
             tgt |-> [tgt EXCEPT !.elements =
                         [k \in DOMAIN @ \cup {func.pos} |->
                             IF k = func.pos THEN NewButton ELSE @[k]]]]
      [] func.kind = "remove"  ->
            [ok |-> TRUE, added |-> <<>>,
             tgt |-> [tgt EXCEPT !.elements = Restrict(@, DOMAIN @ \ {func.pos})]]
      [] func.kind = "pushsub" ->
            [ok |-> TRUE, added |-> <<>>,
             tgt |-> [tgt EXCEPT !.subs = Append(@, func.sub)]]
      [] func.kind = "popsub"  ->
            [ok |-> TRUE, added |-> <<>>,
             tgt |-> [tgt EXCEPT !.subs = IF @ = <<>> THEN @
                                          ELSE SubSeq(@, 1, Len(@) - 1)]]

\* StateManager::add
SMPush(q, func) == Append(q, func)

\* a drain that takes the newest closure first (pop_back for pop_front)
RECURSIVE ApplyLoopLifo(_, _, _, _, _)
ApplyLoopLifo(q, args, tgt, edited, ran) ==
    IF q = <<>>
    THEN [ret |-> IF edited THEN "Ok(true)" ELSE "Ok(false)",
          funcs |-> q, tgt |-> tgt, ran |-> ran]
    ELSE LET func == q[Len(q)]
             r    == RunOp(func, args, tgt)
             rest == SubSeq(q, 1, Len(q) - 1) \o r.added
             ran2 == Append(ran, [func |-> func, args |-> args])
         IN IF r.ok THEN ApplyLoopLifo(rest, args, r.tgt, TRUE, ran2)
            ELSE [ret |-> "Err", funcs |-> rest, tgt |-> r.tgt, ran |-> ran2]

\* the while-let loop of StateManager::apply; ran records every call func(args)
RECURSIVE ApplyLoop(_, _, _, _, _)
ApplyLoop(q, args, tgt, edited, ran) ==
    IF q = <<>>
    THEN [ret |-> IF edited THEN "Ok(true)" ELSE "Ok(false)",
          funcs |-> q, tgt |-> tgt, ran |-> ran]
    ELSE LET func == Head(q)
             r    == RunOp(func, args, tgt)
             rest == Tail(q) \o r.added
             ran2 == Append(ran, [func |-> func, args |-> args])
         IN IF r.ok THEN ApplyLoop(rest, args, r.tgt, TRUE, ran2)
            ELSE [ret |-> "Err", funcs |-> rest, tgt |-> r.tgt, ran |-> ran2]

\* StateManager::apply
SMApplyOp(q, args, tgt) == ApplyLoop(q, args, tgt, FALSE, <<>>)

(***************************************************************************)
(* Events (crate::event::Event, used by every widget).  The model's events *)
(* are records [type, ...] with the fields of the Rust variant.            *)
(***************************************************************************)
ElementMove(x, y) == [type |-> "ElementMove", x |-> x, y |-> y]

ElementResize(w, h) == [type |-> "ElementResize", width |-> w, height |-> h]

MouseButtonDown(x, y) == [type |-> "MouseButtonDown", mouse_btn |-> "Left", x |-> x, y |-> y]

KeyDown == [type |-> "KeyDown"]

\* FRect::contains_point: left <= x < left + width and top <= y < top + height
ContainsPoint(r, x, y) ==
    /\ FLe(r.x, x) /\ FLt(x, FAdd(r.x, r.width))
    /\ FLe(r.y, y) /\ FLt(y, FAdd(r.y, r.height))

\* hover for a mouse event wherever its point is
HoverAnywhere(ev, r) == ev.type \in {"MouseButtonDown", "MouseButtonUp", "MouseMotion"}

\* Event::hover: a mouse event whose point lies in the rectangle
Hover(ev, r) ==
    /\ ev.type \in {"MouseButtonDown", "MouseButtonUp", "MouseMotion"}
    /\ ContainsPoint(r, ev.x, ev.y)

(***************************************************************************)
(* Widgets.  A widget is a record with a kind:                             *)
(*   "Button"  the Button of grid_test       "PButton" the one of panel_test*)
(*   "Unit"    the unit type ()              "Grid", "Panel"               *)
(* Every operation on a widget returns                                     *)
(*   [w: the widget afterwards, ok: Result is Ok, clicks: what it added to *)
(*    the shared counter, log: the calls made on descendants, in order].   *)
(* A log entry names its receiver by its path from the root: the cell      *)
(* positions (Grid) or indices (Panel) leading to it.                      *)
(*                                                                         *)
(* Grid (ui_element/grid.rs).  A column or row spec is [t, v] with t "Px"  *)
(* or "Ratio"; a cell position is [x, y], counted from 0 as in Pos.        *)
(***************************************************************************)
Px(n) == [t |-> "Px", v |-> FromInt(n)]

Ratio(n) == [t |-> "Ratio", v |-> FromInt(n)]

Pos(x, y) == [x |-> x, y |-> y]

Ret(w, ok, clicks, log) == [w |-> w, ok |-> ok, clicks |-> clicks, log |-> log]

\* a scale_ration that leaves the ratio as it was given
scale_ration_kept(c, total_ratio) == c

\* ColType::scale_ration, RowType::scale_ration
scale_ration(c, total_ratio) ==
    IF c.t = "Px" THEN c ELSE [t |-> "Ratio", v |-> FDiv(c.v, total_ratio)]

\* a to_px that takes a ratio for pixels
to_px_unscaled(c, total_px) == c.v

\* ColType::to_px, RowType::to_px
to_px(c, total_px) == IF c.t = "Px" THEN c.v ELSE FMul(c.v, total_px)

\* the two accumulating loops of reform: static_x += x, dyn_x += x
RECURSIVE SumOf(_, _, _, _)
SumOf(specs, t, i, acc) ==
    IF i > Len(specs) THEN acc
    ELSE SumOf(specs, t, i + 1, IF specs[i].t = t THEN FAdd(acc, specs[i].v) ELSE acc)

StaticOf(specs) == SumOf(specs, "Px", 1, FZero)

DynOf(specs) == SumOf(specs, "Ratio", 1, FZero)

\* for col in &mut self.cols { *col = col.scale_ration(dyn_x) }
RECURSIVE ScaleFrom(_, _, _)
ScaleFrom(specs, total_ratio, i) ==
    IF i > Len(specs) THEN <<>>
    ELSE <<scale_ration(specs[i], total_ratio)>> \o ScaleFrom(specs, total_ratio, i + 1)

ScaleAll(specs) == ScaleFrom(specs, DynOf(specs), 1)

\* the order in which HashMap::values_mut visits the cells.  Rust leaves the
\* order unspecified; the model visits row by row, and its initial grids
\* place a failing child both first and last in that order.
RECURSIVE KeysInOrder(_)
KeysInOrder(S) ==
    IF S = {} THEN <<>>
    ELSE LET k == CHOOSE k \in S : \A o \in S : k.y * 16 + k.x <= o.y * 16 + o.x
         IN <<k>> \o KeysInOrder(S \ {k})

ValuesOrder(elements) == KeysInOrder(DOMAIN elements)

\* Grid::new
NewGrid(cols, rows, elements) ==
    [kind |-> "Grid", cols |-> cols, rows |-> rows, elements |-> elements,
     static_x |-> FZero, static_y |-> FZero, surface |-> zero, funcs |-> <<>>]

\* Panel::new
NewPanel(subs) == [kind |-> "Panel", surface |-> zero, subs |-> subs, funcs |-> <<>>]

EvEntry(path, ev, ok) == [k |-> "event", to |-> path, ev |-> ev, ok |-> ok]

Put(g, pos, w) == [g EXCEPT !.elements[pos] = w]

PutSub(p, i, w) == [p EXCEPT !.subs[i] = w]

\* r with entry put before its log
Logged(entry, r) == [r EXCEPT !.log = <<entry>> \o @]

RECURSIVE WEvent(_, _, _)
RECURSIVE Reform(_, _)
RECURSIVE ReformRow(_, _, _, _, _, _, _, _, _)
RECURSIVE ReformRows(_, _, _, _, _, _, _)
RECURSIVE Broadcast(_, _, _, _, _, _, _)
RECURSIVE PanelBroadcast(_, _, _, _, _, _)

\* UserControl::event(element.into(), canvas, ev, parent, state), logged
Send(element, ev, cpath) ==
    The({Logged(EvEntry(cpath, ev, r.ok), r) : r \in {WEvent(element, ev, cpath)}})

\* the body of `if let Some(element) = self.elements.get_mut(&Pos { x, y })`
\* in Grid::reform: surface is read once, before the two events
LayoutCell(element, p_x, p_y, width, height, cpath) ==
    The({IF ~r1.ok THEN r1
         ELSE IF element.surface.width # width \/ element.surface.height # height
         THEN [Send(r1.w, ElementResize(width, height), cpath) EXCEPT !.log = r1.log \o @]
         ELSE r1
         : r1 \in {IF element.surface.x # p_x \/ element.surface.y # p_y
                   THEN Send(element, ElementMove(p_x, p_y), cpath)
                   ELSE Ret(element, TRUE, 0, <<>>)}})

\* one step of `for (x, pos_x) in self.cols.iter().enumerate()` at cell
\* (x, y), then the rest of the row
CellThen(g, remain_width, height, y, x, p_x, p_y, width, path, log) ==
    IF Pos(x, y) \notin DOMAIN g.elements
    THEN ReformRow(g, remain_width, height, y, x + 1, FAdd(p_x, width), p_y, path, log)
    ELSE The({
        IF ~r.ok THEN Ret(Put(g, Pos(x, y), r.w), FALSE, 0, log \o r.log)
        ELSE ReformRow(Put(g, Pos(x, y), r.w), remain_width, height, y, x + 1,
                       FAdd(p_x, width), p_y, path, log \o r.log)
        : r \in {LayoutCell(g.elements[Pos(x, y)], p_x, p_y, width, height,
                            Append(path, Pos(x, y)))}})

\* the inner loop of Grid::reform: row y from column x on, p_x the running
\* offset
ReformRow(g, remain_width, height, y, x, p_x, p_y, path, log) ==
    IF x >= Len(g.cols) THEN Ret(g, TRUE, 0, log)
    ELSE CellThen(g, remain_width, height, y, x, p_x, p_y,
                  to_px(g.cols[x + 1], remain_width), path, log)

\* one step of `for (y, pos_y) in self.rows.iter().enumerate()`, then the
\* rows below
RowThen(g, remain_width, remain_height, y, p_y, height, path, log) ==
    The({
        IF ~r.ok THEN r
        ELSE ReformRows(r.w, remain_width, remain_height, y + 1,
                        FAdd(p_y, height), path, r.log)
        : r \in {ReformRow(g, remain_width, height, y, 0, g.surface.x, p_y, path, log)}})

\* the outer loop of Grid::reform: from row y on, p_y the running offset
ReformRows(g, remain_width, remain_height, y, p_y, path, log) ==
    IF y >= Len(g.rows) THEN Ret(g, TRUE, 0, log)
    ELSE RowThen(g, remain_width, remain_height, y, p_y,
                 to_px(g.rows[y + 1], remain_height), path, log)

\* Grid::reform up to the space check: the sums and the renormalisation
Measure(g) ==
    [g EXCEPT !.static_x = StaticOf(g.cols),
              !.cols     = ScaleAll(g.cols),
              !.static_y = StaticOf(g.rows),
              !.rows     = ScaleAll(g.rows)]

\* a reform that checks no space and lays nothing out
ReformUnchecked(g, path) == Ret(Measure(g), TRUE, 0, <<>>)

\* Grid::reform
Reform(g, path) ==
    The({The({
        IF FLt(remain_width, FZero) \/ FLt(remain_height, FZero)
        THEN Ret(g1, FALSE, 0, <<[k |-> "reform", to |-> path, ok |-> FALSE]>>)
        ELSE ReformRows(g1, remain_width, remain_height, 0, g1.surface.y, path,
                        <<[k |-> "reform", to |-> path, ok |-> TRUE]>>)
        : remain_width  \in {FSub(g1.surface.width, g1.static_x)},
          remain_height \in {FSub(g1.surface.height, g1.static_y)}})
        : g1 \in {Measure(g)}})

\* for element in self.elements.values_mut() { event(element, ..)? }
\* mode "move": each child gets ElementMove(surface + (dx, dy));
\* mode "same": each child gets a clone of ev
Broadcast(g, keys, mode, ev, path, clicks, log) ==
    IF keys = <<>> THEN Ret(g, TRUE, clicks, log)
    ELSE The({
        IF ~r.ok THEN Ret(Put(g, Head(keys), r.w), FALSE, clicks + r.clicks, log \o r.log)
        ELSE Broadcast(Put(g, Head(keys), r.w), Tail(keys), mode, ev, path,
                       clicks + r.clicks, log \o r.log)
        : r \in {Send(g.elements[Head(keys)],
                      IF mode = "move"
                      THEN ElementMove(FAdd(g.elements[Head(keys)].surface.x, ev.dx),
                                       FAdd(g.elements[Head(keys)].surface.y, ev.dy))
                      ELSE ev,
                      Append(path, Head(keys)))}})

\* a Button that counts a hit twice
ButtonEventTwice(b, ev) ==
    CASE ev.type = "ElementMove" ->
            Ret([b EXCEPT !.surface.x = ev.x, !.surface.y = ev.y], TRUE, 0, <<>>)
      [] ev.type = "ElementResize" ->
            Ret([b EXCEPT !.surface.width = ev.width, !.surface.height = ev.height],
                TRUE, 0, <<>>)
      [] ev.type = "MouseButtonDown" /\ Hover(ev, b.surface) -> Ret(b, TRUE, 2, <<>>)
      [] OTHER -> Ret(b, TRUE, 0, <<>>)

\* grid_test::Button::event
ButtonEvent(b, ev) ==
    CASE ev.type = "ElementMove" ->
            Ret([b EXCEPT !.surface.x = ev.x, !.surface.y = ev.y], TRUE, 0, <<>>)
      [] ev.type = "ElementResize" ->
            Ret([b EXCEPT !.surface.width = ev.width, !.surface.height = ev.height],
                TRUE, 0, <<>>)
      [] ev.type = "MouseButtonDown" /\ Hover(ev, b.surface) -> Ret(b, TRUE, 1, <<>>)
      [] OTHER -> Ret(b, TRUE, 0, <<>>)

\* a panel Button that counts a hit twice
PButtonEventTwice(b, ev) ==
    IF ev.type = "MouseButtonDown" /\ Hover(ev, b.surface)
    THEN Ret(b, TRUE, 2, <<>>) ELSE Ret(b, TRUE, 0, <<>>)

\* panel_test::Button::event
PButtonEvent(b, ev) ==
    IF ev.type = "MouseButtonDown" /\ Hover(ev, b.surface)
    THEN Ret(b, TRUE, 1, <<>>) ELSE Ret(b, TRUE, 0, <<>>)

\* a unit type whose event returns Ok
UnitEventOk(u, ev) == Ret(u, TRUE, 0, <<>>)

\* <() as UserControl>::event
UnitEvent(u, ev) == Ret(u, FALSE, 0, <<>>)

\* a grid that keeps its own position after it has moved its children
MovedStay(r, ev) == r

\* the end of the ElementMove arm of Grid::event: set_x, set_y after the loop
Moved(r, ev) ==
    IF ~r.ok THEN r ELSE [r EXCEPT !.w.surface.x = ev.x, !.w.surface.y = ev.y]

\* a Grid that keeps an event other than ElementMove and ElementResize to
\* itself when it is a child
GridEventTop(g, ev, path) ==
    CASE ev.type = "ElementMove" ->
            IF ev.x # g.surface.x \/ ev.y # g.surface.y
            THEN Moved(Broadcast(g, ValuesOrder(g.elements), "move",
                                 [dx |-> FSub(ev.x, g.surface.x),
                                  dy |-> FSub(ev.y, g.surface.y)],
                                 path, 0, <<>>), ev)
            ELSE Ret(g, TRUE, 0, <<>>)
      [] ev.type = "ElementResize" ->
            IF ev.width # g.surface.width \/ ev.height # g.surface.height
            THEN Reform([g EXCEPT !.surface.width = ev.width,
                                  !.surface.height = ev.height], path)
            ELSE Ret(g, TRUE, 0, <<>>)
      [] OTHER -> IF path = <<>>
                  THEN Broadcast(g, ValuesOrder(g.elements), "same", ev, path, 0, <<>>)
                  ELSE Ret(g, TRUE, 0, <<>>)

\* Grid::event
GridEvent(g, ev, path) ==
    CASE ev.type = "ElementMove" ->
            IF ev.x # g.surface.x \/ ev.y # g.surface.y
            THEN Moved(Broadcast(g, ValuesOrder(g.elements), "move",
                                 [dx |-> FSub(ev.x, g.surface.x),
                                  dy |-> FSub(ev.y, g.surface.y)],
                                 path, 0, <<>>), ev)
            ELSE Ret(g, TRUE, 0, <<>>)
      [] ev.type = "ElementResize" ->
            IF ev.width # g.surface.width \/ ev.height # g.surface.height
            THEN Reform([g EXCEPT !.surface.width = ev.width,
                                  !.surface.height = ev.height], path)
            ELSE Ret(g, TRUE, 0, <<>>)
      [] OTHER -> Broadcast(g, ValuesOrder(g.elements), "same", ev, path, 0, <<>>)

\* a Panel that goes on to the next sub after one has failed
RECURSIVE PanelBroadcastAll(_, _, _, _, _, _)
PanelBroadcastAll(p, i, ev, path, clicks, log) ==
    IF i > Len(p.subs) THEN Ret(p, TRUE, clicks, log)
    ELSE The({
        [PanelBroadcastAll(PutSub(p, i, r.w), i + 1, ev, path,
                           clicks + r.clicks, log \o r.log)
            EXCEPT !.ok = @ /\ r.ok]
        : r \in {Send(p.subs[i], ev, Append(path, i))}})

\* for sub in this.subs.iter_mut() { event(sub, .., event.clone(), ..)? }
PanelBroadcast(p, i, ev, path, clicks, log) ==
    IF i > Len(p.subs) THEN Ret(p, TRUE, clicks, log)
    ELSE The({
        IF ~r.ok THEN Ret(PutSub(p, i, r.w), FALSE, clicks + r.clicks, log \o r.log)
        ELSE PanelBroadcast(PutSub(p, i, r.w), i + 1, ev, path,
                            clicks + r.clicks, log \o r.log)
        : r \in {Send(p.subs[i], ev, Append(path, i))}})

\* Panel::event
PanelEvent(p, ev, path) ==
    PanelBroadcast(CASE ev.type = "ElementMove" ->
                          [p EXCEPT !.surface.x = ev.x, !.surface.y = ev.y]
                     [] ev.type = "ElementResize" ->
                          [p EXCEPT !.surface.width = ev.width,
                                    !.surface.height = ev.height]
                     [] OTHER -> p,
                   1, ev, path, 0, <<>>)

\* UserControl::event, dispatched on the widget's type (the derived impl
\* of an enum of widgets forwards to the variant)
WEvent(w, ev, path) ==
    CASE w.kind = "Button"  -> ButtonEvent(w, ev)
      [] w.kind = "PButton" -> PButtonEvent(w, ev)
      [] w.kind = "Unit"    -> UnitEvent(w, ev)
      [] w.kind = "Grid"    -> GridEvent(w, ev, path)
      [] w.kind = "Panel"   -> PanelEvent(w, ev, path)

RECURSIVE WUpdate(_, _, _)
RECURSIVE UpdateChildren(_, _, _, _)
RECURSIVE PanelUpdateChildren(_, _, _, _)
RECURSIVE WDraw(_, _)
RECURSIVE DrawChildren(_, _, _, _)
RECURSIVE PanelDrawChildren(_, _, _, _)

RECURSIVE RunEntries(_, _)
RunEntries(ran, path) ==
    IF ran = <<>> THEN <<>>
    ELSE <<[k |-> "run", to |-> path, func |-> Head(ran).func]>> \o RunEntries(Tail(ran), path)

\* UserControl::update(element.into(), canvas, elapsed, parent, state), logged
Tick(element, cpath) ==
    The({Logged([k |-> "update", to |-> cpath, ok |-> r.ok], r)
         : r \in {WUpdate(element, <<>>, cpath)}})

\* UserControl::draw(element.into(), canvas, parent, state), logged
Paint(element, cpath) ==
    The({Logged([k |-> "draw", to |-> cpath, ok |-> r.ok], r)
         : r \in {WDraw(element, cpath)}})

\* for element in this.elements.values_mut() { update(element, ..)? }
UpdateChildren(g, keys, path, log) ==
    IF keys = <<>> THEN Ret(g, TRUE, 0, log)
    ELSE The({
        IF ~r.ok THEN Ret(Put(g, Head(keys), r.w), FALSE, 0, log \o r.log)
        ELSE UpdateChildren(Put(g, Head(keys), r.w), Tail(keys), path, log \o r.log)
        : r \in {Tick(g.elements[Head(keys)], Append(path, Head(keys)))}})

\* a grid that lays out again after every drain that did not fail
NeedsReformAlways(ret) == ret # "Err"

\* if this.state_manager.apply(..)? { this.reform(..)? }
NeedsReform(ret) == ret = "Ok(true)"

\* the grid after the drain: what the closures left behind the MutRefs to
\* cols, rows and elements, and what is left of the queue
GridDrained(g, a) ==
    [g EXCEPT !.funcs = a.funcs, !.cols = a.tgt.cols,
              !.rows = a.tgt.rows, !.elements = a.tgt.elements]

\* Grid::update.  during: the closures that the children's update calls
\* pushed onto this grid's state_manager (a child reaches its container
\* through its parent or state MutRef)
GridUpdate(g, during, path) ==
    The({IF ~c.ok THEN c
         ELSE The({
            IF a.ret = "Err"
            THEN Ret(GridDrained(c.w, a), FALSE, 0, c.log \o RunEntries(a.ran, path))
            ELSE IF NeedsReform(a.ret)
            THEN [Reform(GridDrained(c.w, a), path)
                    EXCEPT !.log = c.log \o RunEntries(a.ran, path) \o @]
            ELSE Ret(GridDrained(c.w, a), TRUE, 0, c.log \o RunEntries(a.ran, path))
            : a \in {SMApplyOp(c.w.funcs \o during, "args",
                               [cols |-> c.w.cols, rows |-> c.w.rows,
                                elements |-> c.w.elements])}})
         : c \in {UpdateChildren(g, ValuesOrder(g.elements), path, <<>>)}})

\* for sub in this.subs.iter_mut() { update(sub, ..)? }
PanelUpdateChildren(p, i, path, log) ==
    IF i > Len(p.subs) THEN Ret(p, TRUE, 0, log)
    ELSE The({
        IF ~r.ok THEN Ret(PutSub(p, i, r.w), FALSE, 0, log \o r.log)
        ELSE PanelUpdateChildren(PutSub(p, i, r.w), i + 1, path, log \o r.log)
        : r \in {Tick(p.subs[i], Append(path, i))}})

\* Panel::update
PanelUpdate(p, during, path) ==
    The({IF ~c.ok THEN c
         ELSE The({
            Ret([c.w EXCEPT !.funcs = a.funcs, !.subs = a.tgt.subs],
                a.ret # "Err", 0, c.log \o RunEntries(a.ran, path))
            : a \in {SMApplyOp(c.w.funcs \o during, "args", [subs |-> c.w.subs])}})
         : c \in {PanelUpdateChildren(p, 1, path, <<>>)}})

\* UserControl::update (the test Buttons' update returns Ok(()), the unit
\* type's returns Err)
WUpdate(w, during, path) ==
    CASE w.kind \in {"Button", "PButton"} -> Ret(w, TRUE, 0, <<>>)
      [] w.kind = "Unit"  -> Ret(w, FALSE, 0, <<>>)
      [] w.kind = "Grid"  -> GridUpdate(w, during, path)
      [] w.kind = "Panel" -> PanelUpdate(w, during, path)

\* Grid::draw: for element in this.elements.values() { draw(element, ..)? }
DrawChildren(g, keys, path, log) ==
    IF keys = <<>> THEN Ret(g, TRUE, 0, log)
    ELSE The({
        IF ~r.ok THEN Ret(g, FALSE, 0, log \o r.log)
        ELSE DrawChildren(g, Tail(keys), path, log \o r.log)
        : r \in {Paint(g.elements[Head(keys)], Append(path, Head(keys)))}})

\* Panel::draw: for sub in this.subs.iter() { draw(sub, ..)? }
PanelDrawChildren(p, i, path, log) ==
    IF i > Len(p.subs) THEN Ret(p, TRUE, 0, log)
    ELSE The({
        IF ~r.ok THEN Ret(p, FALSE, 0, log \o r.log)
        ELSE PanelDrawChildren(p, i + 1, path, log \o r.log)
        : r \in {Paint(p.subs[i], Append(path, i))}})

\* UserControl::draw (the test Buttons' draw returns Ok(()), the unit
\* type's returns Err)
WDraw(w, path) ==
    CASE w.kind \in {"Button", "PButton"} -> Ret(w, TRUE, 0, <<>>)
      [] w.kind = "Unit"  -> Ret(w, FALSE, 0, <<>>)
      [] w.kind = "Grid"  -> DrawChildren(w, ValuesOrder(w.elements), path, <<>>)
      [] w.kind = "Panel" -> PanelDrawChildren(w, 1, path, <<>>)

\* StateManager::add on the container's pub state_manager
WAdd(w, func) == [w EXCEPT !.funcs = SMPush(@, func)]

(***************************************************************************)
(* The widgets the model starts from, as Grid::new / simple_grid! and      *)
(* Panel::new build them.                                                  *)
(***************************************************************************)
F(n) == FromInt(n)

Cells(S) == [p \in S |-> NewButton]

NewUnit == [kind |-> "Unit", surface |-> zero]

\* panel_test: Button { surface: FRect::new(x, y, w, h) }
PButton(x, y, w, h) ==
    [kind |-> "PButton",
     surface |-> [x |-> F(x), y |-> F(y), width |-> F(w), height |-> F(h)]]

\* the grid of grid_test::test_grid_click
TestSub ==
    NewGrid(<<Px(2), Ratio(1), Px(2), Ratio(1), Px(2)>>,
            <<Px(2), Ratio(1), Px(2), Ratio(1), Px(2)>>,
            Cells({Pos(1, 1), Pos(3, 1), Pos(1, 3), Pos(3, 3)}))

TestGrid ==
    NewGrid(<<Px(10), Ratio(1), Px(10), Ratio(1), Px(10)>>,
            <<Px(10), Ratio(1), Px(10), Ratio(1), Px(10)>>,
            [p \in {Pos(1, 1), Pos(3, 1), Pos(1, 3), Pos(3, 3)} |->
                IF p = Pos(1, 1) THEN TestSub ELSE NewButton])

\* the panel of panel_test::test_panel_click
TestPanel ==
    NewPanel(<<PButton(12, 12, 2, 2), PButton(12, 16, 2, 2), PButton(16, 12, 2, 2),
               PButton(16, 16, 2, 2), PButton(10, 30, 10, 10), PButton(30, 10, 10, 10),
               PButton(30, 30, 10, 10)>>)

\* fixed sizes only
PxGrid ==
    NewGrid(<<Px(2), Px(3)>>, <<Px(2), Px(2)>>,
            Cells({Pos(0, 0), Pos(1, 0), Pos(1, 1)}))

\* ratios whose quotients are not binary fractions
ThirdsGrid ==
    NewGrid(<<Ratio(1), Ratio(2)>>, <<Px(1), Ratio(2), Ratio(1)>>,
            Cells({Pos(0, 0), Pos(1, 0), Pos(0, 1), Pos(1, 2)}))

SeventhsGrid ==
    NewGrid(<<Ratio(2), Ratio(4), Ratio(1)>>, <<Ratio(1)>>,
            Cells({Pos(0, 0), Pos(2, 0)}))

\* a grid in a cell of a grid
NestGrid ==
    NewGrid(<<Px(1), Ratio(1)>>, <<Ratio(1)>>,
            [p \in {Pos(0, 0), Pos(1, 0)} |->
                IF p = Pos(0, 0) THEN NewButton
                ELSE NewGrid(<<Px(4), Ratio(1)>>, <<Ratio(1)>>, Cells({Pos(1, 0)}))])

\* a grid holding the unit type, visited before and after its sibling
UnitGridFirst ==
    NewGrid(<<Px(2), Px(3)>>, <<Px(2)>>,
            [p \in {Pos(0, 0), Pos(1, 0)} |->
                IF p = Pos(0, 0) THEN NewUnit ELSE NewButton])

UnitGridLast ==
    NewGrid(<<Px(2), Px(3)>>, <<Px(2)>>,
            [p \in {Pos(0, 0), Pos(1, 0)} |->
                IF p = Pos(1, 0) THEN NewUnit ELSE NewButton])

SmallPanel == NewPanel(<<PButton(1, 1, 2, 2), PButton(4, 1, 2, 2)>>)

UnitPanel == NewPanel(<<PButton(1, 1, 2, 2), NewUnit>>)

InitGrids == {PxGrid, ThirdsGrid, SeventhsGrid, NestGrid}

\* the steps of grid_test::test_grid_click and panel_test::test_panel_click
TestScript ==
    <<ElementMove(F(0), F(0)), ElementResize(F(50), F(50)),
      MouseButtonDown(F(0), F(0)), MouseButtonDown(F(11), F(11)),
      MouseButtonDown(F(13), F(13)), MouseButtonDown(F(15), F(15)),
      MouseButtonDown(F(17), F(17)), MouseButtonDown(F(21), F(21)),
      MouseButtonDown(F(31), F(11)), MouseButtonDown(F(11), F(31)),
      MouseButtonDown(F(31), F(31))>>

\* the counter values the two tests assert after each step
TestExpect == <<0, 0, 0, 0, 1, 1, 2, 2, 3, 4, 5>>

MovePoints == {<<0, 0>>, <<5, 3>>}

SizePairs == {<<7, 7>>, <<5, 7>>, <<3, 7>>, <<7, 3>>}

GridEvents ==
    {ElementMove(F(p[1]), F(p[2])) : p \in MovePoints}
    \cup {ElementResize(F(p[1]), F(p[2])) : p \in SizePairs}
    \cup {MouseButtonDown(F(1), F(1)), KeyDown}

TestEvents ==
    {TestScript[i] : i \in 1..Len(TestScript)}
    \cup {ElementMove(F(5), F(3)), ElementResize(F(7), F(7)),
          MouseButtonDown(F(18), F(13)), KeyDown}

TickEvents == {ElementResize(F(7), F(7)), KeyDown}

SurfaceEvents ==
    {ElementMove(F(p[1]), F(p[2])) : p \in MovePoints}
    \cup {ElementResize(F(7), F(7)), ElementResize(F(3), F(7)),
          MouseButtonDown(F(1), F(1)), KeyDown}

\* a closure that changes nothing
NoOp == [kind |-> "ok", id |-> 1]

\* the closures queued on a container of the model
GridOps ==
    {NoOp,
     [kind |-> "pushcol", spec |-> Px(2)],
     [kind |-> "fail", id |-> 3]}

PanelOps ==
    {NoOp,
     [kind |-> "pushsub", sub |-> PButton(1, 4, 2, 2)],
     [kind |-> "fail", id |-> 3]}

OpsOf(w) == IF w.kind = "Grid" THEN GridOps ELSE PanelOps

\* what the children's update calls queue in one tick
ThreeMore == <<[kind |-> "ok", id |-> 6], [kind |-> "ok", id |-> 7], [kind |-> "ok", id |-> 8]>>

GridDuring == {<<>>, <<NoOp>>}

TickDuring == {<<>>, ThreeMore}

NoCall ==
    [call |-> "new", ev |-> KeyDown, ok |-> TRUE, log |-> <<>>,
     pre |-> <<>>, during |-> <<>>, rep |-> 0]

IdleSM ==
    /\ funcs = <<>>
    /\ smLast = [call |-> "new", pre |-> <<>>, func |-> AddedOp, args |-> "a1",
                 ran |-> <<>>, ret |-> "none"]

InitRoot(w, pc) ==
    /\ IdleSM
    /\ root = w
    /\ counter = 0
    /\ last = NoCall
    /\ told = zero
    /\ testPc = pc
    /\ clipboard = <<>>

Told(t, ev) ==
    CASE ev.type = "ElementMove"   -> [t EXCEPT !.x = ev.x, !.y = ev.y]
      [] ev.type = "ElementResize" -> [t EXCEPT !.width = ev.width, !.height = ev.height]
      [] OTHER -> t

\* the widgets directly inside a container
Children(w) ==
    CASE w.kind = "Grid"  -> {w.elements[p] : p \in DOMAIN w.elements}
      [] w.kind = "Panel" -> {w.subs[i] : i \in 1..Len(w.subs)}
      [] OTHER -> {}

\* no child has been pushed further than the model follows it
Within(w) ==
    \A c \in Children(w) : FLe(c.surface.x, F(MaxCoord)) /\ FLe(c.surface.y, F(MaxCoord))

\* UserControl::event called on the root
RootEvent(ev) ==
    \E r \in {WEvent(root, ev, <<>>)} :
    /\ counter + r.clicks <= MaxCounter
    /\ Within(r.w)
    /\ root' = r.w
    /\ counter' = counter + r.clicks
    /\ last' = [call |-> "event", ev |-> ev, ok |-> r.ok, log |-> r.log,
                pre |-> root.funcs, during |-> <<>>,
                rep |-> IF last.call = "event" /\ last.ev = ev
                        THEN (IF last.rep < MaxRep THEN last.rep + 1 ELSE MaxRep)
                        ELSE 1]
    /\ told' = Told(told, ev)
    /\ testPc' = IF testPc >= 0 /\ testPc < Len(TestScript) /\ ev = TestScript[testPc + 1]
                 THEN testPc + 1 ELSE 0 - 1
    /\ UNCHANGED <<funcs, smLast, clipboard>>

\* state_manager.add called on the root container
RootAdd(func) ==
    /\ Len(root.funcs) < MaxQueue
    /\ root' = WAdd(root, func)
    /\ last' = [call |-> "add", ev |-> KeyDown, ok |-> TRUE, log |-> <<>>,
                pre |-> root.funcs, during |-> <<>>, rep |-> 0]
    /\ testPc' = 0 - 1
    /\ UNCHANGED <<funcs, smLast, counter, told, clipboard>>

\* the number of columns or children a container of the model grows to
Width(w) == IF w.kind = "Grid" THEN Len(w.cols) ELSE Len(w.subs)

\* UserControl::update called on the root; during is what the children's
\* update calls queue on the root
RootUpdate(during) ==
    \E r \in {WUpdate(root, during, <<>>)} :
    /\ Width(r.w) <= MaxCols \/ Width(r.w) <= Width(root)
    /\ root' = r.w
    /\ last' = [call |-> "update", ev |-> KeyDown, ok |-> r.ok, log |-> r.log,
                pre |-> root.funcs, during |-> during, rep |-> 0]
    /\ testPc' = 0 - 1
    /\ UNCHANGED <<funcs, smLast, counter, told, clipboard>>

\* UserControl::draw called on the root
RootDraw ==
    \E r \in {WDraw(root, <<>>)} :
    /\ last' = [call |-> "draw", ev |-> KeyDown, ok |-> r.ok, log |-> r.log,
                pre |-> root.funcs, during |-> <<>>, rep |-> 0]
    /\ testPc' = 0 - 1
    /\ UNCHANGED <<funcs, smLast, root, counter, told, clipboard>>

(***************************************************************************)
(* Grids under layout events, draws and ticks whose drain changes nothing. *)
(***************************************************************************)
InitGrid == \E w \in InitGrids : InitRoot(w, 0 - 1)

NextGrid ==
    \/ \E ev \in GridEvents : RootEvent(ev)
    \/ \E during \in GridDuring : RootUpdate(during)
    \/ RootDraw

SpecGrid == InitGrid /\ [][NextGrid]_vars

(***************************************************************************)
(* The grid of test_grid_click under the test's events and a few more.     *)
(***************************************************************************)
InitGridTest == InitRoot(TestGrid, 0)

NextGridTest == \E ev \in TestEvents : RootEvent(ev)

SpecGridTest == InitGridTest /\ [][NextGridTest]_vars

(***************************************************************************)
(* The panel of test_panel_click under the test's events and a few more.   *)
(***************************************************************************)
InitPanel == InitRoot(TestPanel, 0)

NextPanel ==
    \/ \E ev \in TestEvents : RootEvent(ev)
    \/ RootUpdate(<<>>)
    \/ RootDraw

SpecPanel == InitPanel /\ [][NextPanel]_vars

(***************************************************************************)
(* A Grid and a Panel whose queues are filled between and during ticks.    *)
(***************************************************************************)
InitTick == \E w \in {PxGrid, SmallPanel} : InitRoot(w, 0 - 1)

NextTick ==
    \/ \E ev \in TickEvents : RootEvent(ev)
    \/ \E func \in OpsOf(root) : RootAdd(func)
    \/ \E during \in TickDuring : RootUpdate(during)
    \/ RootDraw

SpecTick == InitTick /\ [][NextTick]_vars

(***************************************************************************)
(* Containers, some with a child that fails, under moves and resizes.      *)
(***************************************************************************)
InitSurface ==
    \E w \in {PxGrid, UnitGridFirst, UnitGridLast, SmallPanel, UnitPanel} :
        InitRoot(w, 0 - 1)

NextSurface ==
    \/ \E ev \in SurfaceEvents : RootEvent(ev)
    \/ RootUpdate(<<>>)
    \/ RootDraw

SpecSurface == InitSurface /\ [][NextSurface]_vars

(***************************************************************************)
(* The stand-alone StateManager.                                           *)
(***************************************************************************)
IdleRoot ==
    /\ root = NewGrid(<<>>, <<>>, <<>>)
    /\ counter = 0
    /\ last = NoCall
    /\ told = zero
    /\ testPc = 0 - 1
    /\ clipboard = <<>>

InitSM == IdleSM /\ IdleRoot

\* StateManager::add
SMAdd(func) ==
    /\ Len(funcs) < MaxQueue
    /\ funcs' = SMPush(funcs, func)
    /\ smLast' = [call |-> "add", pre |-> funcs, func |-> func, args |-> "a1",
                  ran |-> <<>>, ret |-> "none"]
    /\ UNCHANGED <<root, counter, last, told, testPc, clipboard>>

\* StateManager::apply
SMApply(args) ==
    \E r \in {SMApplyOp(funcs, args, "none")} :
    /\ funcs' = r.funcs
    /\ smLast' = [call |-> "apply", pre |-> funcs, func |-> AddedOp, args |-> args,
                  ran |-> r.ran, ret |-> r.ret]
    /\ UNCHANGED <<root, counter, last, told, testPc, clipboard>>

NextSM ==
    \/ \E func \in SMOps : SMAdd(func)
    \/ \E args \in ArgVals : SMApply(args)

SpecSM == InitSM /\ [][NextSM]_vars

(***************************************************************************)
(* Containers with a failing child before, between and after its siblings, *)
(* with closures queued between the calls.                                 *)
(***************************************************************************)
UnitPanelMid == NewPanel(<<PButton(1, 1, 2, 2), NewUnit, PButton(4, 1, 2, 2)>>)

InitFail ==
    \E w \in {UnitGridFirst, UnitGridLast, UnitPanelMid} : InitRoot(w, 0 - 1)

NextFail ==
    \/ \E ev \in SurfaceEvents : RootEvent(ev)
    \/ RootAdd(NoOp)
    \/ RootUpdate(<<>>)
    \/ RootDraw

SpecFail == InitFail /\ [][NextFail]_vars

(***************************************************************************)
(* UIString (missing/ui_string.rs) and TextBox (ui_element/text_box.rs).   *)
(* A string is a sequence of one-character strings, all of them ASCII, so  *)
(* byte indices and character indices agree.  The font gives every         *)
(* character an advance and a text the sum of the advances of its          *)
(* characters; the text's height is always within the limit.               *)
(***************************************************************************)
WidthLimit == 8192

\* str::to_uppercase / str::to_lowercase
Upper(c) == CASE c = "a" -> "A" [] c = "v" -> "V" [] c = "x" -> "X" [] OTHER -> c

Lower(c) == CASE c = "A" -> "a" [] c = "V" -> "v" [] c = "X" -> "x" [] OTHER -> c

\* Font::size_of_char(c).0, of a font so large that two characters fill the
\* limit: capitals are 4096 wide, everything else 3000

CharWidth(c) == IF c = Upper(c) /\ c # Lower(c) THEN 4096 ELSE 3000

\* Font::size_of(text).0
RECURSIVE size_of(_)
size_of(text) == IF text = <<>> THEN 0 ELSE CharWidth(Head(text)) + size_of(Tail(text))

\* string_size(font, text).is_some()
string_size(text) == size_of(text) <= WidthLimit

Cased(text, shift) == [i \in 1..Len(text) |-> IF shift THEN Upper(text[i]) ELSE Lower(text[i])]

\* String::insert_str(index, t)
InsertAt(s, index, t) == SubSeq(s, 1, index) \o t \o SubSeq(s, index + 1, Len(s))

\* String::drain(a..b), for a <= b <= Len(s): what is left
DrainRange(s, a, b) == SubSeq(s, 1, a) \o SubSeq(s, b + 1, Len(s))

\* the record of one UIString call: the buffer before and after, the result
\* (the number accepted, or whether the removal was kept) and whether the
\* call panicked
UCall(k, index, arg, pre, post, ret, panic) ==
    [k |-> k, index |-> index, arg |-> arg, pre |-> pre, post |-> post,
     ret |-> ret, panic |-> panic]

\* the loop of UIString::insert_str from prefix length i down to 1; buf is
\* self.text at the head of the iteration.  String::drain(index..i) panics
\* when index > i.
RECURSIVE InsertLoop(_, _, _, _, _)
InsertLoop(pre, buf, index, text, i) ==
    IF i = 0 THEN UCall("insert_str", index, text, pre, buf, 0, FALSE)
    ELSE The({ IF string_size(b)
               THEN UCall("insert_str", index, text, pre, b, i, FALSE)
               ELSE IF index > i
               THEN UCall("insert_str", index, text, pre, b, 0, TRUE)
               ELSE InsertLoop(pre, DrainRange(b, index, i), index, text, i - 1)
               : b \in {InsertAt(buf, index, SubSeq(text, 1, i))} })

\* UIString::insert_str(index, text); String::insert_str panics when index is
\* past the end
insert_str(buf, index, text) ==
    IF text # <<>> /\ index > Len(buf)
    THEN UCall("insert_str", index, text, buf, buf, 0, TRUE)
    ELSE InsertLoop(buf, buf, index, text, Len(text))

\* a drain that never puts the text back
drain_kept(buf, start, len) ==
    IF start + len > Len(buf) THEN UCall("drain", start, len, buf, buf, FALSE, TRUE)
    ELSE UCall("drain", start, len, buf, DrainRange(buf, start, start + len), TRUE, FALSE)

\* UIString::drain(start, len); String::drain panics when the range ends past
\* the end
drain(buf, start, len) ==
    IF start + len > Len(buf) THEN UCall("drain", start, len, buf, buf, FALSE, TRUE)
    ELSE IF string_size(DrainRange(buf, start, start + len))
    THEN UCall("drain", start, len, buf, DrainRange(buf, start, start + len), TRUE, FALSE)
    ELSE UCall("drain", start, len, buf, buf, FALSE, FALSE)

\* UIString::remove(index); String::remove panics when index is not inside
remove(buf, index) ==
    IF index >= Len(buf) THEN UCall("remove", index, 1, buf, buf, FALSE, TRUE)
    ELSE IF string_size(DrainRange(buf, index, index + 1))
    THEN UCall("remove", index, 1, buf, DrainRange(buf, index, index + 1), TRUE, FALSE)
    ELSE UCall("remove", index, 1, buf, buf, FALSE, FALSE)

\* UIString::insert(index, char); String::insert panics when index is past the
\* end
insert(buf, index, c) ==
    IF index > Len(buf) THEN UCall("insert", index, <<c>>, buf, buf, FALSE, TRUE)
    ELSE IF string_size(InsertAt(buf, index, <<c>>))
    THEN UCall("insert", index, <<c>>, buf, InsertAt(buf, index, <<c>>), TRUE, FALSE)
    ELSE UCall("insert", index, <<c>>, buf, buf, FALSE, FALSE)


\* TextBox::new(font, text, state, ..); state is what the state closure returns
NewTextBox(text, state) ==
    [kind |-> "TextBox", surface |-> zero, text |-> text, selected |-> <<>>,
     shift |-> FALSE, ctrl |-> FALSE, state |-> state]

\* Event::KeyDown / Event::KeyUp { keycode: Some(keycode), scancode: Some(scancode) };
\* scancode is the text of scancode.to_string()
Key(type, keycode, scancode) == [type |-> type, keycode |-> keycode, scancode |-> scancode]

\* Event::MouseMotion { mousestate, x, y }; left is mousestate.left()
MouseMotion(x, y, left) == [type |-> "MouseMotion", x |-> x, y |-> y, left |-> left]

\* the loop of TextBox::position_to_index from the character at i (counted
\* from 1)
RECURSIVE PosLoop(_, _, _, _)
PosLoop(text, scale, pos, i) ==
    IF i > Len(text) THEN Len(text)
    ELSE The({ IF FLt(pos, w)
               THEN (IF FLt(pos, FDiv(w, F(2))) THEN i - 1 ELSE i)
               ELSE PosLoop(text, scale, FSub(pos, w), i + 1)
               : w \in {FMul(F(CharWidth(text[i])), scale)} })

\* TextBox::position_to_index(pos)
position_to_index(w, pos) ==
    IF w.text = <<>> THEN 0
    ELSE PosLoop(w.text, FDiv(w.surface.width, F(size_of(w.text))),
                 FMul(pos, w.surface.width), 1)

\* position_to_index(x - surface.x), the position taken for the fraction
IndexAtPixel(w, x) == position_to_index(w, FSub(x, w.surface.x))

\* the index under the mouse: position_to_index((x - surface.x) / surface.width)
IndexAt(w, x) == position_to_index(w, FDiv(FSub(x, w.surface.x), w.surface.width))

\* what a call on the TextBox leaves: the widget, the clipboard, the UIString
\* calls made in order, the Result and whether the call panicked
TRet(w, clip, log, panic) == [w |-> w, clip |-> clip, ok |-> TRUE, log |-> log, panic |-> panic]

\* a select that drops the end of the range
select_caret(w, index, to) == [w EXCEPT !.selected = <<index>>]

\* TextBox::select(index, to_index); to is <<>> for None and <<j>> for Some(j)
select(w, index, to) == [w EXCEPT !.selected = <<index>> \o to]

\* TextBox::delete_selection(&mut index, to_index): the widget, the call made
\* and *index afterwards
delete_selection(w, index, to_index) ==
    IF index < to_index
    THEN The({ [w |-> IF r.ret THEN select([w EXCEPT !.text = r.post], index, <<>>) ELSE w,
                log |-> <<r>>, index |-> index, panic |-> r.panic]
               : r \in {drain(w.text, index, to_index - index)} })
    ELSE The({ [w |-> IF r.ret THEN select([w EXCEPT !.text = r.post], to_index, <<>>) ELSE w,
                log |-> <<r>>, index |-> IF r.ret THEN to_index ELSE index, panic |-> r.panic]
               : r \in {drain(w.text, to_index, index - to_index)} })

\* the second half of TextBox::insert, after the selection is deleted
InsertCased(d, clip, text) ==
    IF d.panic THEN TRet(d.w, clip, d.log, TRUE)
    ELSE The({ TRet(IF r.panic THEN [d.w EXCEPT !.text = r.post]
                    ELSE select([d.w EXCEPT !.text = r.post], d.index + r.ret, <<>>),
                    clip, d.log \o <<r>>, r.panic)
               : r \in {insert_str(d.w.text, d.index, Cased(text, d.w.shift))} })

\* TextBox::insert(to_index, &mut index, text)
TextBoxInsert(w, clip, to, index, text) ==
    IF to # <<>> THEN InsertCased(delete_selection(w, index, to[1]), clip, text)
    ELSE InsertCased([w |-> w, log |-> <<>>, index |-> index, panic |-> FALSE], clip, text)

\* a delete_selection called from the KeyDown arm
Deleted(d, clip) == TRet(d.w, clip, d.log, d.panic)

\* a removal that leaves the caret where it was
RemovedKeep(w, clip, r, caret) ==
    TRet(IF r.ret THEN [w EXCEPT !.text = r.post] ELSE w, clip, <<r>>, r.panic)

\* a UIString::remove called from the KeyDown arm, with the caret it leaves
Removed(w, clip, r, caret) ==
    TRet(IF r.ret THEN select([w EXCEPT !.text = r.post], caret, <<>>) ELSE w,
         clip, <<r>>, r.panic)

\* the text between the two ends of a range
Selection(w, index, to_index) ==
    SubSeq(w.text, (IF index < to_index THEN index ELSE to_index) + 1,
           IF index < to_index THEN to_index ELSE index)

\* what the keypad keys insert
KeypadText ==
    [k \in {"KP_0", "KP_1", "KP_2", "KP_3", "KP_4", "KP_5", "KP_6", "KP_7", "KP_8", "KP_9"} |->
       CASE k = "KP_0" -> "0" [] k = "KP_1" -> "1" [] k = "KP_2" -> "2" [] k = "KP_3" -> "3"
         [] k = "KP_4" -> "4" [] k = "KP_5" -> "5" [] k = "KP_6" -> "6" [] k = "KP_7" -> "7"
         [] k = "KP_8" -> "8" [] k = "KP_9" -> "9"]

\* the KeyDown arm of TextBox::event with a selection (index, to)
KeyWithSelection(w, clip, keycode, scancode, index, to) ==
    CASE keycode = "Backspace" ->
           IF to # <<>> THEN Deleted(delete_selection(w, index, to[1]), clip)
           ELSE IF index > 0 THEN Removed(w, clip, remove(w.text, index - 1), index - 1)
           ELSE TRet(w, clip, <<>>, FALSE)
      [] keycode = "Delete" ->
           IF to # <<>> THEN Deleted(delete_selection(w, index, to[1]), clip)
           ELSE IF index < Len(w.text) THEN Removed(w, clip, remove(w.text, index), index)
           ELSE TRet(w, clip, <<>>, FALSE)
      [] keycode = "Left" ->
           TRet(IF to # <<>>
                THEN (IF w.shift
                      THEN (IF to[1] > 0
                            THEN (IF index = to[1] - 1 THEN select(w, index, <<>>)
                                  ELSE select(w, index, <<to[1] - 1>>))
                            ELSE w)
                      ELSE select(w, IF index < to[1] THEN index ELSE to[1], <<>>))
                ELSE IF index = 0 THEN w
                ELSE IF w.shift THEN select(w, index, <<index - 1>>)
                ELSE select(w, index - 1, <<>>),
                clip, <<>>, FALSE)
      [] keycode = "Right" ->
           TRet(IF to # <<>>
                THEN (IF w.shift
                      THEN (IF to[1] < Len(w.text)
                            THEN (IF index = to[1] + 1 THEN select(w, index, <<>>)
                                  ELSE select(w, index, <<to[1] + 1>>))
                            ELSE w)
                      ELSE select(w, IF index > to[1] THEN index ELSE to[1], <<>>))
                ELSE IF index = Len(w.text) THEN w
                ELSE IF w.shift THEN select(w, index, <<index + 1>>)
                ELSE select(w, index + 1, <<>>),
                clip, <<>>, FALSE)
      [] keycode = "Space" -> TextBoxInsert(w, clip, to, index, <<" ">>)
      [] keycode \in DOMAIN KeypadText ->
           TextBoxInsert(w, clip, to, index, <<KeypadText[keycode]>>)
      [] keycode = "V" /\ w.ctrl -> TextBoxInsert(w, clip, to, index, clip)
      [] keycode = "C" /\ w.ctrl ->
           TRet(w, IF to # <<>> /\ index # to[1] THEN Selection(w, index, to[1]) ELSE clip,
                <<>>, FALSE)
      [] keycode = "X" /\ w.ctrl ->
           IF to # <<>> /\ index # to[1]
           THEN Deleted(delete_selection(w, index, to[1]), Selection(w, index, to[1]))
           ELSE TRet(w, clip, <<>>, FALSE)
      [] keycode = "A" /\ w.ctrl -> TRet(select(w, 0, <<Len(w.text)>>), clip, <<>>, FALSE)
      [] OTHER ->
           IF w.ctrl THEN TRet(w, clip, <<>>, FALSE)
           ELSE TextBoxInsert(w, clip, to, index, scancode)

\* TextBox::event
TextBoxEvent(w, clip, ev) ==
    CASE ev.type = "ElementMove" ->
           TRet([w EXCEPT !.surface.x = ev.x, !.surface.y = ev.y], clip, <<>>, FALSE)
      [] ev.type = "ElementResize" ->
           TRet([w EXCEPT !.surface.width = ev.width, !.surface.height = ev.height],
                clip, <<>>, FALSE)
      [] ev.type \notin {"ElementMove", "ElementResize"} /\ w.state # "Enable" ->
           TRet(w, clip, <<>>, FALSE)
      [] OTHER ->
           CASE Hover(ev, w.surface) /\ ev.type = "MouseButtonDown" /\ ev.mouse_btn = "Left" ->
                  TRet(IF w.shift /\ w.selected # <<>>
                       THEN select(w, w.selected[1], <<IndexAt(w, ev.x)>>)
                       ELSE select(w, IndexAt(w, ev.x), <<>>),
                       clip, <<>>, FALSE)
             [] ~Hover(ev, w.surface) /\ ev.type = "MouseButtonDown" ->
                  TRet([w EXCEPT !.selected = <<>>], clip, <<>>, FALSE)
             [] Hover(ev, w.surface) /\ ev.type = "MouseMotion" /\ ev.left ->
                  TRet(IF w.selected # <<>>
                       THEN select(w, w.selected[1], <<IndexAt(w, ev.x)>>) ELSE w,
                       clip, <<>>, FALSE)
             [] ev.type \in {"KeyDown", "KeyUp"} /\ "keycode" \in DOMAIN ev ->
                  IF ev.keycode \in {"LShift", "RShift"}
                  THEN TRet([w EXCEPT !.shift = (ev.type = "KeyDown")], clip, <<>>, FALSE)
                  ELSE IF ev.keycode \in {"LCtrl", "RCtrl"}
                  THEN TRet([w EXCEPT !.ctrl = (ev.type = "KeyDown")], clip, <<>>, FALSE)
                  ELSE IF ev.type = "KeyDown" /\ w.selected # <<>>
                  THEN KeyWithSelection(w, clip, ev.keycode, ev.scancode, w.selected[1],
                                        Tail(w.selected))
                  ELSE TRet(w, clip, <<>>, FALSE)
             [] OTHER -> TRet(w, clip, <<>>, FALSE)

(***************************************************************************)
(* A TextBox under mouse, key and layout events.  The buffer is kept to    *)
(* MaxLen characters and the clipboard to MaxClip.                         *)
(***************************************************************************)
MaxLen == 3

MaxClip == 1

TextKeys == {"Backspace", "Delete", "Left", "Right", "V", "X"}

TextEvents ==
    {ElementResize(F(8), F(2)), MouseButtonDown(F(9), F(1)), MouseMotion(F(7), F(1), TRUE)}
    \cup {MouseButtonDown(F(x), F(1)) : x \in {1, 4, 7}}
    \cup {Key(t, k, <<k>>) : t \in {"KeyDown", "KeyUp"}, k \in {"LShift", "LCtrl"}}
    \cup {Key("KeyDown", k, <<k>>) : k \in TextKeys}

InitText ==
    /\ IdleSM
    /\ root \in {NewTextBox(t, "Enable") : t \in {<<>>, <<"v", "x">>}}
    /\ counter = 0
    /\ last = NoCall
    /\ told = zero
    /\ testPc = 0 - 1
    /\ clipboard = <<>>

\* UserControl::event called on the TextBox; a panic ends the program
TextEvent(ev) ==
    /\ last.call # "panic"
    /\ \E r \in {TextBoxEvent(root, clipboard, ev)} :
       /\ Len(r.w.text) <= MaxLen
       /\ Len(r.clip) <= MaxClip
       /\ root' = r.w
       /\ clipboard' = r.clip
       /\ last' = [call |-> IF r.panic THEN "panic" ELSE "event", ok |-> r.ok]
       /\ told' = Told(told, ev)
       /\ UNCHANGED <<funcs, smLast, counter, testPc>>

NextText == \E ev \in TextEvents : TextEvent(ev)

SpecText == InitText /\ [][NextText]_vars

(***************************************************************************)
(* One key pressed in a TextBox that holds a text that fits and a bare     *)
(* caret in it, with any modifier held and any of a few clipboard texts.   *)
(***************************************************************************)
Fitting(chars, n) == {t \in UNION {[1..k -> chars] : k \in 0..n} : string_size(t)}

ClipTexts == {<<>>, <<"x">>, <<"v", "x">>, <<"x", "v", "x">>}

InitInsert ==
    /\ IdleSM
    /\ root \in {[NewTextBox(t, "Enable") EXCEPT
                    !.surface = [x |-> F(0), y |-> F(0), width |-> F(8), height |-> F(2)],
                    !.selected = <<i>>, !.shift = s, !.ctrl = c]
                 : t \in Fitting({"v", "x", "X"}, 2), i \in 0..2,
                   s \in BOOLEAN, c \in BOOLEAN}
    /\ root.selected[1] <= Len(root.text)
    /\ counter = 0
    /\ last = NoCall
    /\ told = zero
    /\ testPc = 0 - 1
    /\ clipboard \in ClipTexts

\* UserControl::event called once on the TextBox, with the widget and the
\* clipboard it found
TextCall(ev) ==
    /\ last = NoCall
    /\ \E r \in {TextBoxEvent(root, clipboard, ev)} :
       /\ root' = r.w
       /\ clipboard' = r.clip
       /\ last' = [call |-> IF r.panic THEN "panic" ELSE "event", ev |-> ev, ok |-> r.ok,
                   log |-> r.log, pre |-> root, clip |-> clipboard]
       /\ told' = Told(told, ev)
       /\ UNCHANGED <<funcs, smLast, counter, testPc>>

NextInsert == \E k \in {"V", "X", "KP_1"} : TextCall(Key("KeyDown", k, <<k>>))

SpecInsert == InitInsert /\ [][NextInsert]_vars

(***************************************************************************)
(* ScrollView (ui_element/scroll_view.rs).  h_scroll and v_scroll are the  *)
(* scroll fractions; a fraction, and what is computed from it, is NaN once *)
(* a drag has divided 0.0 by 0.0.                                          *)
(***************************************************************************)
\* 0.1f32
Tenth == <<13421773, 0 - 27>>

\* f32::max, f32::min
FMax(a, b) == IF FLt(a, b) THEN b ELSE a

FMin(a, b) == IF FLt(b, a) THEN b ELSE a

\* a * b and a + b where a or b may be NaN
Scaled(a, b) == IF a = NaN \/ b = NaN THEN NaN ELSE FMul(a, b)

Plus(a, b) == IF a = NaN \/ b = NaN THEN NaN ELSE FAdd(a, b)

\* q.clamp(0., 1.)
Clamp01(q) ==
    IF q = NaN THEN NaN
    ELSE IF FLt(q, FZero) THEN FZero ELSE IF FLt(F(1), q) THEN F(1) ELSE q

\* (n / d).clamp(0., 1.): n / 0.0 is an infinity with the sign of n, or NaN
ClampDiv(n, d) ==
    IF n = NaN THEN NaN
    ELSE IF d = FZero
    THEN (IF n = FZero THEN NaN ELSE IF FLt(FZero, n) THEN F(1) ELSE FZero)
    ELSE Clamp01(FDiv(n, d))

\* ScrollView::new(child, child_width, child_height, scroll_color)
NewScrollView(child, child_width, child_height) ==
    [kind |-> "ScrollView", surface |-> zero, child |-> child,
     child_size |-> <<child_width, child_height>>, child_surface |-> zero,
     v_scroll |-> FZero, h_scroll |-> FZero, v_selected |-> FALSE, h_selected |-> FALSE]

\* Event::MouseWheel { scroll_x, scroll_y, mouse_x, mouse_y, .. }
MouseWheel(scroll_x, scroll_y, mouse_x, mouse_y) ==
    [type |-> "MouseWheel", scroll_x |-> scroll_x, scroll_y |-> scroll_y,
     mouse_x |-> mouse_x, mouse_y |-> mouse_y]

\* Event::MouseButtonUp { x, y, .. }
MouseButtonUp(x, y) == [type |-> "MouseButtonUp", mouse_btn |-> "Left", x |-> x, y |-> y]

\* the length of a thumb: (2. * extent - content).max(30.)
ThumbLen(extent, content) == FMax(FSub(FMul(F(2), extent), content), F(30))

\* ScrollView::h_scroll
HThumb(s) ==
    The({ [x |-> Plus(s.surface.x, Scaled(s.h_scroll, FSub(s.surface.width, w))),
           y |-> FSub(FAdd(s.surface.y, s.surface.height), F(30)),
           width |-> w, height |-> F(30)]
          : w \in {ThumbLen(s.surface.width, s.child_size[1])} })

\* ScrollView::v_scroll
VThumb(s) ==
    The({ [x |-> FSub(FAdd(s.surface.x, s.surface.width), F(30)),
           y |-> Plus(s.surface.y, Scaled(s.v_scroll, FSub(s.surface.height, h))),
           width |-> F(30), height |-> h]
          : h \in {ThumbLen(s.surface.height, s.child_size[2])} })

\* a remap that ignores the visible window: a point inside the viewport
\* keeps its offset from the viewport's origin
OffsetAxisPlain(o, ext, content, co, cext, p) ==
    IF FLt(p, o) THEN FSub(p, o)
    ELSE IF FLt(FAdd(o, ext), p) THEN FSub(FSub(FAdd(content, p), o), ext)
    ELSE FSub(p, o)

\* one axis of ScrollView::offset_event: o and ext are the viewport's origin
\* and extent, content the child's size, co and cext the visible window's
OffsetAxis(o, ext, content, co, cext, p) ==
    IF FLt(p, o) THEN FSub(p, o)
    ELSE IF FLt(FAdd(o, ext), p) THEN FSub(FSub(FAdd(content, p), o), ext)
    ELSE IF ext = FZero THEN NaN
    ELSE Plus(FMul(FDiv(FSub(p, o), ext), cext), co)

\* ScrollView::offset_event(x, y)
offset_event(s, x, y) ==
    <<OffsetAxis(s.surface.x, s.surface.width, s.child_size[1],
                 s.child_surface.x, s.child_surface.width, x),
      OffsetAxis(s.surface.y, s.surface.height, s.child_size[2],
                 s.child_surface.y, s.child_surface.height, y)>>

\* a scroll bar's part that never takes the event
BarPass(s, ev) == [s |-> s, done |-> FALSE]

\* the horizontal scroll bar's part of ScrollView::event: the ScrollView it
\* leaves and whether the function returned from it
HBar(s, ev) ==
    IF ~FLt(s.surface.width, s.child_size[1]) THEN [s |-> s, done |-> FALSE]
    ELSE CASE ev.type = "MouseMotion" ->
                IF ev.left /\ s.h_selected
                THEN [s |-> [s EXCEPT !.h_scroll =
                                ClampDiv(FSub(FSub(ev.x, s.surface.x),
                                              FDiv(HThumb(s).width, F(2))),
                                         FSub(s.surface.width, HThumb(s).width))],
                      done |-> TRUE]
                ELSE [s |-> s, done |-> FALSE]
           [] ev.type = "MouseButtonDown" /\ ev.mouse_btn = "Left" ->
                The({ [s |-> [s EXCEPT !.h_selected = hit], done |-> hit]
                      : hit \in {ContainsPoint(HThumb(s), ev.x, ev.y)} })
           [] ev.type = "MouseButtonUp" ->
                [s |-> [s EXCEPT !.h_selected = FALSE], done |-> FALSE]
           [] OTHER -> [s |-> s, done |-> FALSE]

\* the vertical scroll bar's part of ScrollView::event
VBar(s, ev) ==
    IF ~FLt(s.surface.height, s.child_size[2]) THEN [s |-> s, done |-> FALSE]
    ELSE CASE ev.type = "MouseMotion" ->
                IF ev.left /\ s.v_selected
                THEN [s |-> [s EXCEPT !.v_scroll =
                                ClampDiv(FSub(FSub(ev.y, s.surface.y),
                                              FDiv(VThumb(s).height, F(2))),
                                         FSub(s.surface.height, VThumb(s).height))],
                      done |-> TRUE]
                ELSE [s |-> s, done |-> FALSE]
           [] ev.type = "MouseButtonDown" /\ ev.mouse_btn = "Left" ->
                The({ [s |-> [s EXCEPT !.v_selected = hit], done |-> hit]
                      : hit \in {ContainsPoint(VThumb(s), ev.x, ev.y)} })
           [] ev.type = "MouseButtonUp" ->
                [s |-> [s EXCEPT !.v_selected = FALSE], done |-> FALSE]
           [] OTHER -> [s |-> s, done |-> FALSE]

\* a wheel that moves both fractions whatever the content's size
WheeledAlways(s, ev) ==
    [s EXCEPT
       !.h_scroll = IF @ = NaN THEN NaN ELSE Clamp01(FSub(@, FMul(ev.scroll_x, Tenth))),
       !.v_scroll = IF @ = NaN THEN NaN ELSE Clamp01(FSub(@, FMul(ev.scroll_y, Tenth)))]

\* the MouseWheel arm of the forwarding match: the fractions it leaves
Wheeled(s, ev) ==
    [s EXCEPT
       !.h_scroll = IF FLt(s.surface.width, s.child_size[1])
                    THEN (IF @ = NaN THEN NaN
                          ELSE Clamp01(FSub(@, FMul(ev.scroll_x, Tenth))))
                    ELSE @,
       !.v_scroll = IF FLt(s.surface.height, s.child_size[2])
                    THEN (IF @ = NaN THEN NaN
                          ELSE Clamp01(FSub(@, FMul(ev.scroll_y, Tenth))))
                    ELSE @]

\* the event the child is sent
Remapped(s, ev) ==
    CASE ev.type \in {"MouseMotion", "MouseButtonDown", "MouseButtonUp"} ->
           [ev EXCEPT !.x = offset_event(s, ev.x, ev.y)[1],
                      !.y = offset_event(s, ev.x, ev.y)[2]]
      [] ev.type = "MouseWheel" ->
           [ev EXCEPT !.mouse_x = offset_event(s, ev.mouse_x, ev.mouse_y)[1],
                      !.mouse_y = offset_event(s, ev.mouse_x, ev.mouse_y)[2]]
      [] OTHER -> ev

\* the end of ScrollView::event: the event is remapped and sent to the child
Forward(s, ev) ==
    The({ Ret([s EXCEPT !.child = r.w], r.ok, r.clicks, r.log)
          : r \in {Send(s.child, Remapped(s, ev), <<1>>)} })

\* ScrollView::event
ScrollViewEvent(s, ev) ==
    CASE ev.type = "ElementMove" ->
           Ret([s EXCEPT !.surface.x = ev.x, !.surface.y = ev.y], TRUE, 0, <<>>)
      [] ev.type = "ElementResize" ->
           Ret([s EXCEPT !.surface.width = ev.width, !.surface.height = ev.height],
               TRUE, 0, <<>>)
      [] OTHER ->
           The({ IF h.done THEN Ret(h.s, TRUE, 0, <<>>)
                 ELSE The({ IF v.done THEN Ret(v.s, TRUE, 0, <<>>)
                            ELSE IF ev.type = "MouseWheel" THEN Forward(Wheeled(v.s, ev), ev)
                            ELSE Forward(v.s, ev)
                            : v \in {VBar(h.s, ev)} })
                 : h \in {HBar(s, ev)} })

\* a visible window that scrolls over the whole content instead of over what
\* the viewport does not show
PlacedWhole(s) ==
    [s EXCEPT
       !.child_surface.width = FMin(s.surface.width, s.child_size[1]),
       !.child_surface.height = FMin(s.surface.height, s.child_size[2]),
       !.child_surface.x = Scaled(s.h_scroll, s.child_size[1]),
       !.child_surface.y = Scaled(s.v_scroll, s.child_size[2])]

\* the visible window ScrollView::update computes
Placed(s) ==
    [s EXCEPT
       !.child_surface.width = FMin(s.surface.width, s.child_size[1]),
       !.child_surface.height = FMin(s.surface.height, s.child_size[2]),
       !.child_surface.x = Scaled(s.h_scroll, FSub(s.child_size[1], s.surface.width)),
       !.child_surface.y = Scaled(s.v_scroll, FSub(s.child_size[2], s.surface.height))]

\* the end of ScrollView::update: Child::update on the child of w
Windowed(w, log) ==
    The({ Ret([w EXCEPT !.child = r.w], r.ok, 0, log \o r.log)
          : r \in {Tick(w.child, <<1>>)} })

\* an update that moves the child to (0, 0) whatever its position
ScrollViewUpdateEager(s, surface) ==
    The({ IF ~r1.ok THEN Ret([s EXCEPT !.child = r1.w], FALSE, 0, r1.log)
          ELSE IF s.child_size[1] # surface.width \/ s.child_size[2] # surface.height
          THEN The({ IF ~r2.ok THEN Ret([s EXCEPT !.child = r2.w], FALSE, 0, r1.log \o r2.log)
                     ELSE Windowed(Placed([s EXCEPT !.child = r2.w]), r1.log \o r2.log)
                     : r2 \in {Send(r1.w, ElementResize(s.child_size[1], s.child_size[2]),
                                    <<1>>)} })
          ELSE Windowed(Placed([s EXCEPT !.child = r1.w]), r1.log)
          : r1 \in {Send(s.child, ElementMove(FZero, FZero), <<1>>)} })

\* ScrollView::update; surface is the child's, read once before the events
ScrollViewUpdate(s, surface) ==
    The({ IF ~r1.ok THEN Ret([s EXCEPT !.child = r1.w], FALSE, 0, r1.log)
          ELSE IF s.child_size[1] # surface.width \/ s.child_size[2] # surface.height
          THEN The({ IF ~r2.ok THEN Ret([s EXCEPT !.child = r2.w], FALSE, 0, r1.log \o r2.log)
                     ELSE Windowed(Placed([s EXCEPT !.child = r2.w]), r1.log \o r2.log)
                     : r2 \in {Send(r1.w, ElementResize(s.child_size[1], s.child_size[2]),
                                    <<1>>)} })
          ELSE Windowed(Placed([s EXCEPT !.child = r1.w]), r1.log)
          : r1 \in {IF FZero # surface.x \/ FZero # surface.y
                    THEN Send(s.child, ElementMove(FZero, FZero), <<1>>)
                    ELSE Ret(s.child, TRUE, 0, <<>>)} })

(***************************************************************************)
(* A ScrollView over a 100 x 80 child under layout, wheel, button, motion  *)
(* events and updates.                                                     *)
(***************************************************************************)
ScrollEvents ==
    {ElementMove(F(10), F(20)), KeyDown, MouseButtonUp(F(5), F(5)),
     MouseMotion(F(25), F(35), TRUE)}
    \cup {ElementResize(F(p[1]), F(p[2])) : p \in {<<80, 60>>, <<30, 30>>, <<120, 20>>}}
    \cup {MouseWheel(F(p[1]), F(p[2]), F(5), F(5)) : p \in {<<0 - 10, 0>>, <<0, 0 - 10>>, <<5, 5>>}}
    \cup {MouseButtonDown(F(p[1]), F(p[2])) : p \in {<<20, 70>>, <<80, 30>>, <<5, 5>>}}

InitScroll ==
    /\ IdleSM
    /\ root \in {NewScrollView(c, F(100), F(80)) : c \in {NewButton, NewUnit}}
    /\ counter = 0
    /\ last = NoCall
    /\ told = zero
    /\ testPc = 0 - 1
    /\ clipboard = <<>>

\* UserControl::event called on the ScrollView
ScrollEvent(ev) ==
    \E r \in {ScrollViewEvent(root, ev)} :
    /\ root' = r.w
    /\ last' = [call |-> "event", ok |-> r.ok]
    /\ told' = Told(told, ev)
    /\ UNCHANGED <<funcs, smLast, counter, testPc, clipboard>>

\* UserControl::update called on the ScrollView
ScrollUpdate ==
    \E r \in {ScrollViewUpdate(root, root.child.surface)} :
    /\ root' = r.w
    /\ last' = [call |-> "update", ok |-> r.ok]
    /\ UNCHANGED <<funcs, smLast, counter, told, testPc, clipboard>>

NextScroll ==
    \/ \E ev \in ScrollEvents : ScrollEvent(ev)
    \/ ScrollUpdate

SpecScroll == InitScroll /\ [][NextScroll]_vars

(***************************************************************************)
(* The frame drivers run_event and run_game (lib.rs).  root is the         *)
(* driver: its mode, the statement it stands at (at), its last_x .. and a, *)
(* the window's actual geometry (win), the events the system has queued    *)
(* (queue) and the calls made so far (log).  The game is any game: each of *)
(* its calls returns Ok or Err and running returns either value.  counter  *)
(* numbers the input events in the order of their arrival.                 *)
(***************************************************************************)
MaxCalls == 13

MaxArrive == 2

\* the window positions and sizes of the model
WinRects ==
    {[x |-> F(p), y |-> F(p), width |-> F(s), height |-> F(s)] : p \in {0, 5}, s \in {50, 60}}

\* the driver after init() and the reads of canvas.window().position() and
\* size() into last_x, last_y, last_width, last_height
NewDriver(mode, win) ==
    [kind |-> "Driver", mode |-> mode, at |-> "move", seen |-> win, a |-> FALSE,
     win |-> win, queue |-> <<>>, log |-> <<>>]

\* an input event, numbered by its arrival
Input(n) == [type |-> "KeyDown", n |-> n]

\* the newest event of the queue taken first
PolledNewest(queue) == [ev |-> queue[Len(queue)], rest |-> SubSeq(queue, 1, Len(queue) - 1)]

\* event_pump.poll_iter().next(): the oldest event of the queue
Polled(queue) == [ev |-> Head(queue), rest |-> Tail(queue)]

\* the top of the loop: run_game evaluates running, run_event clears a and
\* polls
LoopTop(d) == [d EXCEPT !.at = IF d.mode = "game" THEN "running" ELSE "poll", !.a = FALSE]

\* a call on the game that returns ok, made at d.at and, when Ok, followed
\* by what next gives; `?` returns from the driver on Err
Called(d, entry, ok, next) ==
    IF ok THEN [next EXCEPT !.log = Append(d.log, entry)]
    ELSE [d EXCEPT !.log = Append(d.log, entry), !.at = "err"]

InitDriver ==
    /\ IdleSM
    /\ root \in {NewDriver(mode, win) : mode \in {"event", "game"}, win \in WinRects}
    /\ counter = 0
    /\ last = NoCall
    /\ told = zero
    /\ testPc = 0 - 1
    /\ clipboard = <<>>

Step(d) ==
    /\ Len(d.log) <= MaxCalls
    /\ root' = d
    /\ UNCHANGED <<funcs, smLast, counter, last, told, testPc, clipboard>>

\* the two Game::event calls before the loop
Startup(ok) ==
    \/ /\ root.at = "move"
       /\ Step(Called(root, EvEntry(<<>>, ElementMove(root.seen.x, root.seen.y), ok), ok,
                      [root EXCEPT !.at = "resize"]))
    \/ /\ root.at = "resize"
       /\ Step(Called(root, EvEntry(<<>>, ElementResize(root.seen.width, root.seen.height), ok),
                      ok, LoopTop(root)))

\* the system queues an input event
Arrive ==
    /\ root.at \notin {"done", "err"}
    /\ counter < MaxArrive
    /\ counter' = counter + 1
    /\ root' = [root EXCEPT !.queue = Append(@, Input(counter + 1))]
    /\ UNCHANGED <<funcs, smLast, last, told, testPc, clipboard>>

\* the user moves or resizes the window
WindowChange(win) ==
    /\ root.at \notin {"done", "err"}
    /\ win # root.win
    /\ Step([root EXCEPT !.win = win])

\* one turn of `for event in event_pump.poll_iter()`
PollOne(ok) ==
    /\ root.at = "poll"
    /\ root.queue # <<>>
    /\ Step(Called(root, EvEntry(<<>>, Polled(root.queue).ev, ok), ok,
                   [root EXCEPT !.queue = Polled(root.queue).rest, !.a = TRUE]))

\* poll_iter() finds the queue empty
PollEnd ==
    /\ root.at = "poll"
    /\ root.queue = <<>>
    /\ Step([root EXCEPT !.at = "position", !.log = Append(@, [k |-> "polled"])])

\* the comparison of canvas.window().position() with last_x, last_y
Position(ok) ==
    /\ root.at = "position"
    /\ IF root.seen.x # root.win.x \/ root.seen.y # root.win.y
       THEN Step(Called(root, EvEntry(<<>>, ElementMove(root.win.x, root.win.y), ok), ok,
                        [root EXCEPT !.at = "size", !.a = TRUE,
                                     !.seen.x = root.win.x, !.seen.y = root.win.y]))
       ELSE ok /\ Step([root EXCEPT !.at = "size"])

\* the comparison of canvas.window().size() with last_width, last_height, and
\* in run_event `if a { break; }` or the sleep before the next poll
Size(ok) ==
    /\ root.at = "size"
    /\ IF root.seen.width # root.win.width \/ root.seen.height # root.win.height
       THEN Step(Called(root, EvEntry(<<>>, ElementResize(root.win.width, root.win.height), ok),
                        ok,
                        [root EXCEPT !.at = IF root.mode = "game" THEN "update" ELSE "running",
                                     !.a = TRUE, !.seen.width = root.win.width,
                                     !.seen.height = root.win.height]))
       ELSE ok /\ Step([root EXCEPT !.at = IF root.mode = "game" THEN "update"
                                           ELSE IF root.a THEN "running" ELSE "poll"])

\* Game::running(..): run_game's loop condition, run_event's `if !running { break; }`
Running(v) ==
    /\ root.at = "running"
    /\ Step([root EXCEPT !.log = Append(@, [k |-> "running", v |-> v]),
                         !.at = IF ~v THEN "done"
                                ELSE IF root.mode = "game" THEN "poll" ELSE "update"])

\* Game::update(..)?
Update(ok) ==
    /\ root.at = "update"
    /\ Step(Called(root, [k |-> "update", ok |-> ok], ok, [root EXCEPT !.at = "draw"]))

\* Game::draw(..)? and canvas.present()
Draw(ok) ==
    /\ root.at = "draw"
    /\ Step(Called(root, [k |-> "draw", ok |-> ok], ok, LoopTop(root)))

NextDriver ==
    \/ \E ok \in BOOLEAN : Startup(ok)
    \/ Arrive
    \/ \E win \in WinRects : WindowChange(win)
    \/ \E ok \in BOOLEAN : PollOne(ok)
    \/ PollEnd
    \/ \E ok \in BOOLEAN : Position(ok)
    \/ \E ok \in BOOLEAN : Size(ok)
    \/ \E v \in BOOLEAN : Running(v)
    \/ \E ok \in BOOLEAN : Update(ok)
    \/ \E ok \in BOOLEAN : Draw(ok)

SpecDriver == InitDriver /\ [][NextDriver]_vars

(***************************************************************************)
(* Grids holding a grid, children outside the column and row ranges and    *)
(* the unit type, under events of every kind.                              *)
(***************************************************************************)
\* a grid of one row whose second cell holds a grid; both have a child at a
\* position no column and row of theirs reaches
StrayGrid ==
    NewGrid(<<Px(1), Ratio(1)>>, <<Ratio(1)>>,
            [p \in {Pos(0, 0), Pos(1, 0), Pos(3, 2)} |->
                IF p = Pos(1, 0)
                THEN NewGrid(<<Ratio(1)>>, <<Ratio(1)>>, Cells({Pos(0, 0), Pos(5, 5)}))
                ELSE NewButton])

RelayEvents ==
    {ElementMove(F(5), F(3)), ElementResize(F(7), F(7)), ElementResize(F(3), F(7)),
     KeyDown, MouseButtonDown(F(1), F(1)), MouseButtonDown(F(6), F(4)),
     MouseButtonUp(F(1), F(1)), MouseMotion(F(2), F(2), TRUE),
     MouseWheel(F(0), F(1), F(1), F(1))}

InitRelay == \E w \in {StrayGrid, UnitGridLast} : InitRoot(w, 0 - 1)

NextRelay ==
    \/ \E ev \in RelayEvents : RootEvent(ev)
    \/ RootUpdate(<<>>)
    \/ RootDraw

SpecRelay == InitRelay /\ [][NextRelay]_vars

(***************************************************************************)
(* A ScrollView over a child, each call recorded with its event and with   *)
(* what it sent to the child.                                              *)
(***************************************************************************)
\* a press of the right button
RightDown(x, y) == [MouseButtonDown(x, y) EXCEPT !.mouse_btn = "Right"]

BarEvents ==
    {ElementMove(F(10), F(20)), KeyDown, MouseButtonUp(F(5), F(5)),
     MouseMotion(F(25), F(35), TRUE), RightDown(F(55), F(35)),
     MouseWheel(F(0 - 10), F(0 - 5), F(5), F(5)), MouseWheel(F(10), F(10), F(25), F(35))}
    \cup {ElementResize(F(p[1]), F(p[2])) : p \in {<<80, 60>>, <<120, 20>>}}
    \cup {MouseButtonDown(F(p[1]), F(p[2])) : p \in {<<5, 45>>, <<75, 5>>, <<55, 35>>, <<5, 5>>}}

\* a Button that was given a position before the ScrollView took it
PlacedButton == [NewButton EXCEPT !.surface.x = F(3), !.surface.y = F(4)]

\* a ScrollView over a 100 x 80 Button, or over a 100 x 10 unit type
InitBars ==
    /\ IdleSM
    /\ root \in {NewScrollView(PlacedButton, F(100), F(80)),
                 NewScrollView(NewUnit, F(100), F(10))}
    /\ counter = 0
    /\ last = NoCall
    /\ told = zero
    /\ testPc = 0 - 1
    /\ clipboard = <<>>

\* UserControl::event called on the ScrollView
BarEvent(ev) ==
    \E r \in {ScrollViewEvent(root, ev)} :
    /\ root' = r.w
    /\ last' = [call |-> "event", ev |-> ev, ok |-> r.ok, log |-> r.log]
    /\ told' = Told(told, ev)
    /\ UNCHANGED <<funcs, smLast, counter, testPc, clipboard>>

\* UserControl::update called on the ScrollView
BarUpdate ==
    \E r \in {ScrollViewUpdate(root, root.child.surface)} :
    /\ root' = r.w
    /\ last' = [call |-> "update", ev |-> KeyDown, ok |-> r.ok, log |-> r.log]
    /\ UNCHANGED <<funcs, smLast, counter, told, testPc, clipboard>>

NextBars ==
    \/ \E ev \in BarEvents : BarEvent(ev)
    \/ BarUpdate

SpecBars == InitBars /\ [][NextBars]_vars

(***************************************************************************)
(* A UIString under insert, drain and remove.  The buffer is any text of   *)
(* at most MaxBuf characters: UIString::new_const takes a text unmeasured. *)
(***************************************************************************)
MaxBuf == 4

BufChars == {"v", "X"}

\* UIString::new_const(font, text)
new_const(text) == [kind |-> "UIString", text |-> text]

\* what UIString::drain collects before it measures: the text of the range
Taken(buf, start, len) == SubSeq(buf, start + 1, start + len)

InitBuffer ==
    /\ IdleSM
    /\ root \in {new_const(t) : t \in UNION {[1..n -> BufChars] : n \in 0..MaxBuf}}
    /\ counter = 0
    /\ last = NoCall
    /\ told = zero
    /\ testPc = 0 - 1
    /\ clipboard = <<>>

\* one UIString call r made on the buffer; out is the Option it returned,
\* <<>> for None
BufCall(r, out) ==
    /\ ~r.panic
    /\ root' = [root EXCEPT !.text = r.post]
    /\ last' = [call |-> r.k, ok |-> TRUE, index |-> r.index, arg |-> r.arg,
                ret |-> r.ret, out |-> out]
    /\ UNCHANGED <<funcs, smLast, counter, told, testPc, clipboard>>

\* UIString::insert(index, c)
BufInsert(index, c) ==
    \E r \in {insert(root.text, index, c)} : BufCall(r, <<>>)

\* UIString::drain(start, len)
BufDrain(start, len) ==
    \E r \in {drain(root.text, start, len)} :
        BufCall(r, IF r.ret THEN <<Taken(root.text, start, len)>> ELSE <<>>)

\* UIString::remove(index)
BufRemove(index) ==
    \E r \in {remove(root.text, index)} :
        BufCall(r, IF r.ret THEN <<Taken(root.text, index, 1)>> ELSE <<>>)

NextBuffer ==
    \/ \E index \in 0..MaxBuf, c \in BufChars : BufInsert(index, c)
    \/ \E start \in 0..MaxBuf, len \in 0..MaxBuf : BufDrain(start, len)
    \/ \E index \in 0..MaxBuf : BufRemove(index)

SpecBuffer == InitBuffer /\ [][NextBuffer]_vars

(***************************************************************************)
(* UIRect (ui_element/ui_rect.rs).  state is what the state closure        *)
(* returns; action is "None" when the rectangle has no action and          *)
(* otherwise what the action returns, "Ok" or "Err".  A call of the action *)
(* counts as one click.                                                    *)
(***************************************************************************)
\* UIRect::new(state, back_color), then .action(..) when action is not "None"
NewUIRect(state, action) ==
    [kind |-> "UIRect", surface |-> zero, state |-> state, hover |-> FALSE, action |-> action]

\* a UIRect that handles events whatever its state
UIRectEventAlways(b, ev) ==
    CASE ev.type = "ElementMove" ->
           Ret([b EXCEPT !.surface.x = ev.x, !.surface.y = ev.y], TRUE, 0, <<>>)
      [] ev.type = "ElementResize" ->
           Ret([b EXCEPT !.surface.width = ev.width, !.surface.height = ev.height],
               TRUE, 0, <<>>)
      [] OTHER ->
           CASE Hover(ev, b.surface) /\ ev.type = "MouseButtonDown" /\ ev.mouse_btn = "Left" ->
                  IF b.action = "None" THEN Ret(b, TRUE, 0, <<>>)
                  ELSE Ret(b, b.action = "Ok", 1, <<>>)
             [] Hover(ev, b.surface) /\ ev.type = "MouseMotion" ->
                  Ret([b EXCEPT !.hover = TRUE], TRUE, 0, <<>>)
             [] ~Hover(ev, b.surface) -> Ret([b EXCEPT !.hover = FALSE], TRUE, 0, <<>>)
             [] OTHER -> Ret(b, TRUE, 0, <<>>)

\* UIRect::event
UIRectEvent(b, ev) ==
    CASE ev.type = "ElementMove" ->
           Ret([b EXCEPT !.surface.x = ev.x, !.surface.y = ev.y], TRUE, 0, <<>>)
      [] ev.type = "ElementResize" ->
           Ret([b EXCEPT !.surface.width = ev.width, !.surface.height = ev.height],
               TRUE, 0, <<>>)
      [] ev.type \notin {"ElementMove", "ElementResize"} /\ b.state # "Enable" ->
           Ret(b, TRUE, 0, <<>>)
      [] OTHER ->
           CASE Hover(ev, b.surface) /\ ev.type = "MouseButtonDown" /\ ev.mouse_btn = "Left" ->
                  IF b.action = "None" THEN Ret(b, TRUE, 0, <<>>)
                  ELSE Ret(b, b.action = "Ok", 1, <<>>)
             [] Hover(ev, b.surface) /\ ev.type = "MouseMotion" ->
                  Ret([b EXCEPT !.hover = TRUE], TRUE, 0, <<>>)
             [] ~Hover(ev, b.surface) -> Ret([b EXCEPT !.hover = FALSE], TRUE, 0, <<>>)
             [] OTHER -> Ret(b, TRUE, 0, <<>>)

(***************************************************************************)
(* A TextBox or a UIRect whose state closure changes its answer between    *)
(* events.                                                                 *)
(***************************************************************************)
StateEnum == {"Hidden", "Showing", "Enable"}

StateEvents ==
    {ElementResize(F(8), F(2)), MouseButtonUp(F(1), F(1)),
     MouseMotion(F(4), F(1), TRUE), MouseMotion(F(9), F(1), FALSE)}
    \cup {MouseButtonDown(F(x), F(1)) : x \in {1, 9}}
    \cup {Key(t, "LShift", <<"LShift">>) : t \in {"KeyDown", "KeyUp"}}
    \cup {Key("KeyDown", k, <<k>>) : k \in {"Backspace", "Right", "X"}}

InitState ==
    /\ IdleSM
    /\ root \in {NewTextBox(<<"v", "x">>, s) : s \in StateEnum}
                \cup {NewUIRect(s, a) : s \in StateEnum, a \in {"None", "Ok", "Err"}}
    /\ counter = 0
    /\ last = NoCall
    /\ told = zero
    /\ testPc = 0 - 1
    /\ clipboard = <<>>

\* UserControl::event called on the UIRect
RectEvent(ev) ==
    /\ root.kind = "UIRect"
    /\ \E r \in {UIRectEvent(root, ev)} :
       /\ root' = r.w
       /\ last' = [call |-> "event", ev |-> ev, ok |-> r.ok, clicks |-> r.clicks]
       /\ told' = Told(told, ev)
       /\ UNCHANGED <<funcs, smLast, counter, testPc, clipboard>>

\* UserControl::event called on the TextBox
BoxEvent(ev) ==
    /\ root.kind = "TextBox"
    /\ \E r \in {TextBoxEvent(root, clipboard, ev)} :
       /\ ~r.panic
       /\ Len(r.w.text) <= MaxLen
       /\ root' = r.w
       /\ clipboard' = r.clip
       /\ last' = [call |-> "event", ev |-> ev, ok |-> r.ok, clicks |-> 0]
       /\ told' = Told(told, ev)
       /\ UNCHANGED <<funcs, smLast, counter, testPc>>

\* what the state closure reads has changed: it now returns s
StateChange(s) ==
    /\ root.state # s
    /\ root' = [root EXCEPT !.state = s]
    /\ last' = [call |-> "state", ev |-> KeyDown, ok |-> TRUE, clicks |-> 0]
    /\ UNCHANGED <<funcs, smLast, counter, told, testPc, clipboard>>

NextState ==
    \/ \E ev \in StateEvents : RectEvent(ev)
    \/ \E ev \in StateEvents : BoxEvent(ev)
    \/ \E s \in StateEnum : StateChange(s)

SpecState == InitState /\ [][NextState]_vars

(***************************************************************************)
(* An enabled TextBox with a caret or a range selected, under paste,       *)
(* Backspace and Delete.  The buffer is kept to MaxText characters.        *)
(***************************************************************************)
MaxText == 4

\* TextBox::select(index, to_index) on a new TextBox, for every index of the
\* text
Selected(w) ==
    {select(w, i, <<>>) : i \in 0..Len(w.text)}
    \cup {select(w, i, <<j>>) : i \in 0..Len(w.text), j \in 0..Len(w.text)}

InitErase ==
    /\ IdleSM
    /\ root \in UNION {Selected([NewTextBox(t, "Enable") EXCEPT
                                   !.surface = [x |-> F(0), y |-> F(0),
                                                width |-> F(8), height |-> F(2)],
                                   !.ctrl = c])
                       : t \in Fitting({"v", "x"}, 2), c \in BOOLEAN}
    /\ counter = 0
    /\ last = NoCall
    /\ told = zero
    /\ testPc = 0 - 1
    /\ clipboard \in {<<>>, <<"v", "x">>}

\* UserControl::event called on the TextBox, with the widget it found; a
\* panic ends the program
EraseCall(ev) ==
    /\ last.call # "panic"
    /\ \E r \in {TextBoxEvent(root, clipboard, ev)} :
       /\ Len(r.w.text) <= MaxText
       /\ root' = r.w
       /\ clipboard' = r.clip
       /\ last' = [call |-> IF r.panic THEN "panic" ELSE "event", ev |-> ev, ok |-> r.ok,
                   pre |-> root]
       /\ told' = Told(told, ev)
       /\ UNCHANGED <<funcs, smLast, counter, testPc>>

NextErase == \E k \in {"V", "Backspace", "Delete"} : EraseCall(Key("KeyDown", k, <<k>>))

SpecErase == InitErase /\ [][NextErase]_vars

(***************************************************************************)
(* One event sent to an enabled TextBox that holds a text that fits, with  *)
(* no selection, a bare caret or a range, any modifier held and any of a   *)
(* few clipboard texts.                                                    *)
(***************************************************************************)
KeyLeft == Key("KeyDown", "Left", <<"Left">>)

KeyRight == Key("KeyDown", "Right", <<"Right">>)

KeyEvents ==
    {KeyLeft, KeyRight}
    \cup {Key("KeyDown", k, <<k>>) : k \in {"A", "C", "X", "V", "Backspace"}}
    \cup {Key("KeyDown", "KP_1", <<"Keypad 1">>), Key("KeyDown", "Space", <<"Space">>)}
    \cup {Key(t, k, <<k>>) : t \in {"KeyDown", "KeyUp"}, k \in {"LShift", "RShift", "LCtrl"}}
    \cup {MouseButtonDown(F(x), F(1)) : x \in {1, 2, 3, 5, 7, 9}}
    \cup {RightDown(F(9), F(1)), RightDown(F(3), F(1)),
          MouseMotion(F(5), F(1), TRUE), MouseMotion(F(5), F(1), FALSE),
          MouseMotion(F(9), F(1), TRUE)}

InitKeys ==
    /\ IdleSM
    /\ root \in UNION {Selected(w) \cup {w} :
                       w \in {[NewTextBox(t, "Enable") EXCEPT
                                 !.surface = [x |-> F(0), y |-> F(0),
                                              width |-> F(8), height |-> F(2)],
                                 !.shift = s, !.ctrl = c]
                              : t \in Fitting({"v", "x", "X"}, 2),
                                s \in BOOLEAN, c \in BOOLEAN}}
    /\ counter = 0
    /\ last = NoCall
    /\ told = zero
    /\ testPc = 0 - 1
    /\ clipboard \in {<<>>, <<"x">>, <<"X", "v">>}

NextKeys == \E ev \in KeyEvents : TextCall(ev)

SpecKeys == InitKeys /\ [][NextKeys]_vars

(***************************************************************************)
(* An enabled TextBox with a caret or a range selected, under paste, copy, *)
(* cut and the Right arrow, with ctrl held or not and shift held or not.   *)
(***************************************************************************)
InitCut ==
    /\ IdleSM
    /\ root \in UNION {Selected([NewTextBox(t, "Enable") EXCEPT
                                   !.surface = [x |-> F(0), y |-> F(0),
                                                width |-> F(8), height |-> F(2)],
                                   !.shift = s,
                                   !.ctrl = c])
                       : t \in Fitting({"v", "x"}, 2), s \in BOOLEAN, c \in BOOLEAN}
    /\ counter = 0
    /\ last = NoCall
    /\ told = zero
    /\ testPc = 0 - 1
    /\ clipboard \in {<<>>, <<"v", "x">>}

NextCut == \E k \in {"V", "C", "X", "Right"} : EraseCall(Key("KeyDown", k, <<k>>))

SpecCut == InitCut /\ [][NextCut]_vars

(***************************************************************************)
(* Properties of Grid layout, checked under SpecGrid.                      *)
(***************************************************************************)
\* the last call on the root ran Grid::reform on the root
LayoutRan ==
    \E i \in 1..Len(last.log) : last.log[i].k = "reform" /\ last.log[i].to = <<>>

\* the last call on the root ran Grid::reform and returned Ok
LaidOut == last.call \in {"event", "update"} /\ LayoutRan /\ last.ok

\* the fixed sizes of an axis of g need more than g has
Over(g) ==
    \/ FCmp(StaticOf(g.cols), g.surface.width) > 0
    \/ FCmp(StaticOf(g.rows), g.surface.height) > 0

HasRatio(specs) == \E i \in 1..Len(specs) : specs[i].t = "Ratio"

FAbs(a) == <<Abs(a[1]), a[2]>>

\* the relative tolerance of the comparisons up to rounding: 2^-20
Tol == FDiv(FromInt(1), FromInt(1048576))

\* a and b differ by no more than Tol times the larger of them
Near(a, b) ==
    FLe(FAbs(FSub(a, b)),
        FMul(Tol, IF FCmp(FAbs(a), FAbs(b)) >= 0 THEN FAbs(a) ELSE FAbs(b)))

\* what a stored spec comes to with remain to share
Resolved(c, remain) == IF c.t = "Px" THEN c.v ELSE FMul(c.v, remain)

\* start plus the resolved sizes of the first n specs, added left to right
RECURSIVE Offset(_, _, _, _)
Offset(specs, remain, n, start) ==
    IF n = 0 THEN start
    ELSE FAdd(Offset(specs, remain, n - 1, start), Resolved(specs[n], remain))

RemainW(g) == FSub(g.surface.width, StaticOf(g.cols))

RemainH(g) == FSub(g.surface.height, StaticOf(g.rows))

TotalW(g) == Offset(g.cols, RemainW(g), Len(g.cols), FZero)

TotalH(g) == Offset(g.rows, RemainH(g), Len(g.rows), FZero)

\* what spec i of specs gets of size: Px(v) gets v, Ratio(r) gets
\* (r / the sum of the ratios) * (size - the sum of the Px)
Share(specs, i, size) ==
    IF specs[i].t = "Px" THEN specs[i].v
    ELSE FMul(FDiv(specs[i].v, DynOf(specs)), FSub(size, StaticOf(specs)))

\* C1: a call that runs the root grid's layout (an ElementResize that
\* changes the grid's size, an update whose drain ran a closure) returns Err
\* whenever the Px columns sum to more than the width or the Px rows to more
\* than the height, and then no child is sent anything; when both sums fit,
\* a remainder of exactly 0 included, the grid raises no error of its own:
\* the call returns Ok unless an event it sent to a child returned Err.
\* Calls that are neither do not run the layout.
C1_SpaceError ==
    [][/\ (\/ /\ last'.call = "event"
              /\ last'.ev.type = "ElementResize"
              /\ \/ last'.ev.width # root.surface.width
                 \/ last'.ev.height # root.surface.height
           \/ /\ last'.call = "update"
              /\ last'.pre \o last'.during # <<>>)
          => /\ LayoutRan'
             /\ Over(root') =>
                   /\ ~last'.ok
                   /\ \A i \in 1..Len(last'.log) : last'.log[i].k # "event"
             /\ ~Over(root') =>
                   \/ last'.ok
                   \/ \E i \in 1..Len(last'.log) :
                         /\ last'.log[i].k = "event"
                         /\ Len(last'.log[i].to) = 1
                         /\ ~last'.log[i].ok
       /\ (\/ last'.call = "draw"
           \/ last'.call = "event" /\ last'.ev.type # "ElementResize"
           \/ last'.call = "update" /\ last'.pre \o last'.during = <<>>)
          => ~LayoutRan'
      ]_vars

\* an update drained a closure and the layout it ran failed for want of room
C1_Witness ==
    /\ last.call = "update"
    /\ last.during # <<>>
    /\ LayoutRan
    /\ Over(root)
    /\ ~last.ok

\* C1 as stated: the layout succeeds whenever both sums fit
C1_FitsThenSucceeds ==
    (last.call \in {"event", "update"} /\ LayoutRan /\ ~Over(root)) => last.ok

\* C2: after a successful layout of the root grid the child in cell (x, y)
\* starts at the grid's x plus the resolved widths of the columns 0..x-1,
\* added left to right in binary32, and is as wide as column x resolves to
\* (rows and heights alike), so neighbours neither overlap nor leave a gap
\* between them.  An axis with only Px specs adds up to the sum of those
\* specs, whatever the grid's size; an axis with a Ratio spec adds up to the
\* grid's size up to rounding.
C2_Tiling ==
    LaidOut =>
        /\ \A p \in DOMAIN root.elements :
              /\ root.elements[p].surface.x
                    = Offset(root.cols, RemainW(root), p.x, root.surface.x)
              /\ root.elements[p].surface.y
                    = Offset(root.rows, RemainH(root), p.y, root.surface.y)
              /\ root.elements[p].surface.width
                    = Resolved(root.cols[p.x + 1], RemainW(root))
              /\ root.elements[p].surface.height
                    = Resolved(root.rows[p.y + 1], RemainH(root))
        /\ IF HasRatio(root.cols) THEN Near(TotalW(root), root.surface.width)
           ELSE TotalW(root) = StaticOf(root.cols)
        /\ IF HasRatio(root.rows) THEN Near(TotalH(root), root.surface.height)
           ELSE TotalH(root) = StaticOf(root.rows)

\* a grid with Ratio columns was laid out, and its columns do not add up to
\* its width
C2_Witness ==
    /\ LaidOut
    /\ HasRatio(root.cols)
    /\ Cardinality(DOMAIN root.elements) >= 3
    /\ TotalW(root) # root.surface.width
    /\ FCmp(RemainW(root), FZero) > 0

\* C2 as stated: the resolved widths sum exactly to the grid's width, the
\* resolved heights to its height
C2_SumsToSize ==
    LaidOut => TotalW(root) = root.surface.width /\ TotalH(root) = root.surface.height

\* C3: a successful layout gives the child in a Px(v) column the width v and
\* the child in a Ratio(r) column the width (r / sum of the Ratio values) *
\* (grid width - sum of the Px widths), computed in binary32 from the specs
\* stored before the pass (rows alike); the Ratio specs it stores add up to
\* 1 up to rounding; and a layout run again by the next update gives every
\* child the same width and height up to rounding.
C3_Resolve ==
    [][(LaidOut' /\ DOMAIN root'.elements = DOMAIN root.elements
                 /\ Len(root'.cols) = Len(root.cols)
                 /\ Len(root'.rows) = Len(root.rows)) =>
          /\ \A p \in DOMAIN root'.elements :
                /\ root'.elements[p].surface.width
                      = Share(root.cols, p.x + 1, root'.surface.width)
                /\ root'.elements[p].surface.height
                      = Share(root.rows, p.y + 1, root'.surface.height)
          /\ HasRatio(root'.cols) => Near(DynOf(root'.cols), FromInt(1))
          /\ HasRatio(root'.rows) => Near(DynOf(root'.rows), FromInt(1))
          /\ (LaidOut /\ last'.call = "update") =>
                \A p \in DOMAIN root'.elements :
                   /\ Near(root'.elements[p].surface.width,
                           root.elements[p].surface.width)
                   /\ Near(root'.elements[p].surface.height,
                           root.elements[p].surface.height)
      ]_vars

\* a grid with the columns Ratio 2, 4, 1 and width 7 was laid out a second
\* time, and the first column is no longer 2 wide
C3_Witness ==
    /\ last.call = "update"
    /\ LaidOut
    /\ Len(root.cols) = 3
    /\ HasRatio(root.cols)
    /\ root.surface.width = FromInt(7)
    /\ root.elements[Pos(0, 0)].surface.width # FromInt(2)

\* C3 as stated: after the pass the stored Ratio specs of an axis sum to 1
C3_RatiosSumToOne ==
    LaidOut =>
        /\ HasRatio(root.cols) => DynOf(root.cols) = FromInt(1)
        /\ HasRatio(root.rows) => DynOf(root.rows) = FromInt(1)

(***************************************************************************)
(* Properties of the click tests, checked under SpecGridTest and SpecPanel.*)
(***************************************************************************)
\* the number of Buttons under w whose rectangle holds the point (x, y)
RECURSIVE Hits(_, _, _)
RECURSIVE HitsIn(_, _, _, _)
HitsIn(g, keys, x, y) ==
    IF keys = <<>> THEN 0
    ELSE Hits(g.elements[Head(keys)], x, y) + HitsIn(g, Tail(keys), x, y)

Hits(w, x, y) ==
    CASE w.kind = "Grid" -> HitsIn(w, KeysInOrder(DOMAIN w.elements), x, y)
      [] w.kind = "Panel" ->
            Cardinality({i \in 1..Len(w.subs) : ContainsPoint(w.subs[i].surface, x, y)})
      [] w.kind = "Unit" -> 0
      [] OTHER -> IF ContainsPoint(w.surface, x, y) THEN 1 ELSE 0

\* the rectangles of the Buttons under w
RECURSIVE ButtonRects(_)
ButtonRects(w) ==
    CASE w.kind = "Grid" -> UNION {ButtonRects(w.elements[p]) : p \in DOMAIN w.elements}
      [] w.kind = "Panel" -> UNION {ButtonRects(w.subs[i]) : i \in 1..Len(w.subs)}
      [] w.kind = "Unit" -> {}
      [] OTHER -> {w.surface}

\* the seven rectangles of the click tests
TestRects == {TestPanel.subs[i].surface : i \in 1..Len(TestPanel.subs)}

\* C4: once the test grid has been given ElementMove(0, 0) and
\* ElementResize(50, 50), its seven Buttons, those of the nested grid
\* included, have the rectangles of the test; a MouseButtonDown on the root
\* adds to the counter the number of Buttons whose rectangle holds the point,
\* which is 1 or 0 since the rectangles are disjoint; and after each step of
\* the test's script the counter is what the test asserts, 5 at the end.
C4_GridClicks ==
    [][/\ testPc' >= 1 => counter' = TestExpect[testPc']
       /\ testPc' >= 2 => ButtonRects(root') = TestRects
       /\ (last'.call = "event" /\ last'.ev.type = "MouseButtonDown") =>
             /\ counter' = counter + Hits(root, last'.ev.x, last'.ev.y)
             /\ testPc >= 2 => Hits(root, last'.ev.x, last'.ev.y) \in {0, 1}
             /\ root' = root
      ]_vars

\* the script of test_grid_click has run to its end
C4_Witness ==
    /\ testPc = Len(TestScript)
    /\ counter = 5
    /\ root.kind = "Grid"

\* C5: a MouseButtonDown on the Panel is sent to each child once, in order,
\* and adds to the counter the number of children whose rectangle holds the
\* point, wherever the counter stands and whatever was delivered before, so
\* the same event delivered again counts again; after each step of the
\* test's script the counter is what the test asserts.
C5_PanelClicks ==
    [][/\ testPc' >= 1 => counter' = TestExpect[testPc']
       /\ (last'.call = "event" /\ last'.ev.type = "MouseButtonDown") =>
             /\ counter' = counter + Hits(root, last'.ev.x, last'.ev.y)
             /\ Len(last'.log) = Len(root.subs)
             /\ \A i \in 1..Len(last'.log) :
                   last'.log[i] = EvEntry(<<i>>, last'.ev, TRUE)
             /\ root' = root
      ]_vars

\* the same MouseButtonDown on one Button three times in a row, counted
\* three times
C5_Witness ==
    /\ root.kind = "Panel"
    /\ last.call = "event"
    /\ last.ev = MouseButtonDown(F(13), F(13))
    /\ last.rep = 3
    /\ counter = 3

(***************************************************************************)
(* Properties of the StateManager, checked under SpecSM.                   *)
(***************************************************************************)
RECURSIVE CountIn(_, _)
CountIn(seq, func) ==
    IF seq = <<>> THEN 0
    ELSE (IF Head(seq) = func THEN 1 ELSE 0) + CountIn(Tail(seq), func)

\* C6: add puts the closure at the back of the queue; apply calls the queued
\* closures in queue order, the i-th call being the i-th queued closure, each
\* with the args apply was given; whatever ran beyond the queued ones is a
\* closure pushed during the drain.  When apply returns Ok the queue is empty,
\* every queued closure ran, and the value is true exactly if a closure ran;
\* on an empty queue nothing runs and the value is false.
C6_ApplyFifo ==
    /\ smLast.call = "add" => funcs = Append(smLast.pre, smLast.func)
    /\ smLast.call = "apply" =>
          LET n == Len(smLast.ran)
              m == Len(smLast.pre)
          IN /\ \A i \in 1..n : smLast.ran[i].args = smLast.args
             /\ \A i \in 1..n : IF i <= m THEN smLast.ran[i].func = smLast.pre[i]
                                ELSE smLast.ran[i].func = AddedOp
             /\ smLast.ret # "Err" =>
                   /\ n >= m
                   /\ funcs = <<>>
                   /\ smLast.ret = "Ok(true)" <=> n >= 1
             /\ m = 0 => n = 0 /\ smLast.ret = "Ok(false)"

\* three different closures were queued and one apply ran them all
C6_Witness ==
    /\ smLast.call = "apply"
    /\ smLast.ret = "Ok(true)"
    /\ Len(smLast.pre) = 3
    /\ Len(smLast.ran) = 3
    /\ smLast.pre[1] # smLast.pre[2]
    /\ smLast.pre[2] # smLast.pre[3]

\* C7: a closure pushed onto the queue by a closure of the running drain is
\* not called in that drain: it is still queued when apply returns.
C7_DrainNotReentrant ==
    smLast.call = "apply" =>
        /\ CountIn([i \in 1..Len(smLast.ran) |-> smLast.ran[i].func], AddedOp) = 0
        /\ CountIn(funcs, AddedOp)
              = CountIn([i \in 1..Len(smLast.ran) |-> smLast.ran[i].func],
                        [kind |-> "adder", id |-> 4])

\* an apply in which a closure pushed another one onto the queue
C7_Witness ==
    /\ smLast.call = "apply"
    /\ \E i \in 1..Len(smLast.ran) : smLast.ran[i].func.kind = "adder"

(***************************************************************************)
(* Properties of the containers' update, checked under SpecTick.           *)
(***************************************************************************)
\* the closures the last call ran from the root's queue, in order
RECURSIVE RunFuncs(_)
RunFuncs(log) ==
    IF log = <<>> THEN <<>>
    ELSE (IF Head(log).k = "run" /\ Head(log).to = <<>>
          THEN <<Head(log).func>> ELSE <<>>) \o RunFuncs(Tail(log))

\* the number of update calls on children of the root in log
RECURSIVE TickCount(_)
TickCount(log) ==
    IF log = <<>> THEN 0
    ELSE (IF Head(log).k = "update" /\ Len(Head(log).to) = 1 THEN 1 ELSE 0)
         + TickCount(Tail(log))

ChildCount(w) ==
    IF w.kind = "Grid" THEN Cardinality(DOMAIN w.elements) ELSE Len(w.subs)

\* the structure of a container: how many columns and rows, which children
Shape(w) ==
    IF w.kind = "Grid" THEN <<Len(w.cols), Len(w.rows), DOMAIN w.elements>>
    ELSE <<Len(w.subs)>>

\* C8 as stated: with three closures queued before the tick and three more
\* queued during it, the update runs the first three and leaves the other
\* three in the queue
C8_FirstThreeOnly ==
    (/\ last.call = "update"
     /\ Len(last.pre) = 3
     /\ \A i \in 1..3 : last.pre[i].kind = "ok"
     /\ last.during = ThreeMore)
    => /\ RunFuncs(last.log) = last.pre
       /\ root.funcs = ThreeMore

\* an update found three closures queued, got three more from the children's
\* updates, and ran all six
C8_Witness ==
    /\ last.call = "update"
    /\ Len(last.pre) = 3
    /\ \A i \in 1..3 : last.pre[i].kind = "ok"
    /\ last.during = ThreeMore
    /\ RunFuncs(last.log) = last.pre \o ThreeMore
    /\ root.funcs = <<>>

\* C9: in the update of a Grid or a Panel every child's update comes before
\* the first closure of the queue is run, and the layout of a Grid after the
\* last; add, event and draw run no closure, leave the queue as it is (add:
\* one longer) and the container with the columns, rows and children it
\* had; and the update of a Grid runs the layout exactly if the drain ran a
\* closure and no closure returned Err.
C9_UpdateOrder ==
    [][/\ last'.call = "update" =>
             /\ \A i, j \in 1..Len(last'.log) :
                   (last'.log[i].k = "update" /\ last'.log[j].k \in {"run", "reform"})
                      => i < j
             /\ \A i, j \in 1..Len(last'.log) :
                   (last'.log[i].k = "run" /\ last'.log[j].k = "reform") => i < j
             /\ RunFuncs(last'.log) # <<>> => TickCount(last'.log) = ChildCount(root)
             /\ root.kind = "Grid" =>
                   (LayoutRan' <=>
                       /\ RunFuncs(last'.log) # <<>>
                       /\ \A i \in 1..Len(RunFuncs(last'.log)) :
                             RunFuncs(last'.log)[i].kind # "fail")
       /\ last'.call \in {"add", "event", "draw"} =>
             /\ RunFuncs(last'.log) = <<>>
             /\ Shape(root') = Shape(root)
             /\ IF last'.call = "add"
                THEN /\ Len(root'.funcs) = Len(root.funcs) + 1
                     /\ SubSeq(root'.funcs, 1, Len(root.funcs)) = root.funcs
                ELSE root'.funcs = root.funcs
      ]_vars

\* the update of a Grid ticked the children, ran two queued closures, one of
\* them adding a column, and laid the grid out again
C9_Witness ==
    /\ last.call = "update"
    /\ root.kind = "Grid"
    /\ LayoutRan
    /\ Len(RunFuncs(last.log)) >= 2
    /\ Len(root.cols) = 3
    /\ TickCount(last.log) = 3

\* C9 as stated: the update of a Grid runs the layout exactly if the drain
\* ran a closure
C9_LayoutIffDrainRan ==
    (last.call = "update" /\ root.kind = "Grid") =>
        (LayoutRan <=> RunFuncs(last.log) # <<>>)

(***************************************************************************)
(* Properties of surface(), checked under SpecSurface.                     *)
(***************************************************************************)
\* C10 as stated: the root's surface is the position of the last ElementMove
\* and the size of the last ElementResize delivered to it, the zero rect
\* before any
C10_SurfaceIsLastTold == root.surface = told

\* a Grid was sent an ElementMove, a child's event returned Err, and the
\* Grid's surface is not at the position it was sent
C10_Witness ==
    /\ root.kind = "Grid"
    /\ last.call = "event"
    /\ last.ev.type = "ElementMove"
    /\ ~last.ok
    /\ root.surface.x # told.x

(***************************************************************************)
(* Properties of the unit type and of error propagation, checked under     *)
(* SpecSurface.                                                            *)
(***************************************************************************)
\* the child of the root a log entry names (the first step of its path)
ChildAt(w, key) == IF w.kind = "Grid" THEN w.elements[key] ELSE w.subs[key]

HasUnit(w) == \E c \in Children(w) : c.kind = "Unit"

\* the entries of the last call that are calls on a unit child of the root
UnitCalls ==
    {i \in 1..Len(last.log) :
        /\ last.log[i].k \in {"event", "update", "draw"}
        /\ Len(last.log[i].to) = 1
        /\ ChildAt(root, last.log[i].to[1]).kind = "Unit"}

\* C11: every event, update and draw call on the unit type returns Err,
\* whatever the event; its surface is the zero rect; and a container with a
\* unit child returns Err from every update, every draw and every event
\* other than ElementMove and ElementResize (a Panel from those as well).
C11_UnitFails ==
    /\ \A i \in UnitCalls : ~last.log[i].ok
    /\ \A c \in Children(root) : c.kind = "Unit" => c.surface = zero
    /\ HasUnit(root) =>
          /\ last.call \in {"update", "draw"} => ~last.ok /\ UnitCalls # {}
          /\ (last.call = "event" /\ last.ev.type \notin {"ElementMove", "ElementResize"})
                => ~last.ok /\ UnitCalls # {}
          /\ (last.call = "event" /\ root.kind = "Panel") => ~last.ok /\ UnitCalls # {}

\* a key press sent to a Grid reached its unit child and came back as Err
C11_Witness ==
    /\ root.kind = "Grid"
    /\ HasUnit(root)
    /\ last.call = "event"
    /\ last.ev = KeyDown
    /\ ~last.ok
    /\ UnitCalls # {}

\* the entries of the last call that are calls on children of the root
ChildCalls ==
    {i \in 1..Len(last.log) :
        last.log[i].k \in {"event", "update", "draw"} /\ Len(last.log[i].to) = 1}

\* the children of the root in the order a container visits them
VisitOrder(w) ==
    IF w.kind = "Grid" THEN KeysInOrder(DOMAIN w.elements)
    ELSE [i \in 1..Len(w.subs) |-> i]

\* C12: when a call on a child returns Err the container's call returns Err
\* and does nothing after it: no later child is called, no closure of the
\* queue is run (the queue is as update found it) and no layout follows.
\* A forwarded event, an update and a draw visit the children in order, each
\* once, up to the one that failed.
C12_FirstErrorStops ==
    last.call \in {"event", "update", "draw"} =>
        /\ \A i \in ChildCalls :
              ~last.log[i].ok => /\ ~last.ok
                                 /\ i = Len(last.log)
                                 /\ root.funcs = last.pre
        /\ (\/ last.call \in {"update", "draw"}
            \/ last.ev.type \notin {"ElementMove", "ElementResize"}
            \/ root.kind = "Panel")
           => /\ \A i \in ChildCalls : i <= Len(VisitOrder(root))
                                       /\ last.log[i].to = <<VisitOrder(root)[i]>>
              /\ last.ok => Cardinality(ChildCalls) = Len(VisitOrder(root))

\* a key press sent to a Panel of three failed at the second child and the
\* third never saw it
C12_Witness ==
    /\ root.kind = "Panel"
    /\ Len(root.subs) = 3
    /\ last.call = "event"
    /\ last.ev = KeyDown
    /\ ~last.ok
    /\ Len(last.log) = 2
    /\ last.log[1].ok
    /\ ~last.log[2].ok

(***************************************************************************)
(* Properties of UIString and TextBox.                                     *)
(***************************************************************************)
\* the UIString::insert_str calls of the last call
InsertCalls == {i \in 1..Len(last.log) : last.log[i].k = "insert_str"}

\* the prefix lengths of text whose insertion into buf at index fits
FitLens(buf, index, text) ==
    {n \in 1..Len(text) : string_size(InsertAt(buf, index, SubSeq(text, 1, n)))}

\* the longest of them, 0 when there is none
LongestFit(buf, index, text) ==
    IF FitLens(buf, index, text) = {} THEN 0
    ELSE CHOOSE n \in FitLens(buf, index, text) : \A m \in FitLens(buf, index, text) : m <= n

\* C13: an insert_str of a text of which no prefix fits, at any index from 0
\* to the buffer's length, returns 0 and leaves the buffer as it was.
C13_NothingFitsUnchanged ==
    last.call \in {"event", "panic"} =>
        \A i \in InsertCalls :
            (/\ last.log[i].arg # <<>>
             /\ last.log[i].index <= Len(last.log[i].pre)
             /\ FitLens(last.log[i].pre, last.log[i].index, last.log[i].arg) = {})
            => /\ ~last.log[i].panic
               /\ last.log[i].ret = 0
               /\ last.log[i].post = last.log[i].pre

\* a full buffer with the caret at its end, and a key typed
C13_Witness ==
    /\ last.call \in {"event", "panic"}
    /\ last.ev.type = "KeyDown" /\ last.ev.keycode = "X"
    /\ last.pre.text = <<"v", "x">> /\ last.pre.selected = <<2>> /\ ~last.pre.ctrl
    /\ InsertCalls # {}

\* C14: insert_str(index, text) returns the length n of the longest prefix
\* that fits and leaves the old buffer with that prefix inserted at index;
\* the TextBox then holds a bare caret at index + n.
C14_LongestPrefix ==
    last.call \in {"event", "panic"} =>
        \A i \in InsertCalls :
            last.log[i].index <= Len(last.log[i].pre) =>
            \E n \in {LongestFit(last.log[i].pre, last.log[i].index, last.log[i].arg)} :
               /\ ~last.log[i].panic
               /\ last.log[i].ret = n
               /\ last.log[i].post = InsertAt(last.log[i].pre, last.log[i].index,
                                              SubSeq(last.log[i].arg, 1, n))
               /\ root.text = last.log[i].post
               /\ root.selected = <<last.log[i].index + n>>

\* a clipboard text pasted behind the one character of the buffer, with room
\* for one more
C14_Witness ==
    /\ last.call \in {"event", "panic"}
    /\ last.ev.type = "KeyDown" /\ last.ev.keycode = "V" /\ last.pre.ctrl
    /\ last.pre.text = <<"v">> /\ last.pre.selected = <<1>>
    /\ last.clip = <<"x", "v", "x">>
    /\ InsertCalls # {}

\* C15: after any sequence of events on a TextBox, the anchor of a selection
\* and its end, if it has one, are within 0 .. the buffer's length.
C15_SelectionInBounds ==
    root.kind = "TextBox" =>
        \A i \in 1..Len(root.selected) : root.selected[i] \in 0..Len(root.text)

\* a range that ends at the end of a buffer the events have filled with a
\* typed capital and a pasted character
C15_Witness ==
    /\ root.kind = "TextBox"
    /\ Len(root.text) = 2 /\ root.text[1] = "X" /\ clipboard # <<>>
    /\ Len(root.selected) = 2 /\ root.selected[1] = 0 /\ root.selected[2] = 2

(***************************************************************************)
(* Properties of ScrollView.                                               *)
(***************************************************************************)
\* the content is larger than the viewport on both axes
Scrollable(s) ==
    /\ FLt(s.surface.width, s.child_size[1])
    /\ FLt(s.surface.height, s.child_size[2])

\* C16: after an update of a ScrollView whose content is larger than the
\* viewport on both axes, the visible window has the viewport's size; with
\* a fraction of 0 it starts at 0, with a fraction of 1 it starts at content
\* minus viewport and so ends at the content's extent.
C16_WindowAtEnds ==
    (/\ root.kind = "ScrollView" /\ last.call = "update" /\ last.ok
     /\ Scrollable(root))
    => /\ root.child_surface.width = root.surface.width
       /\ root.child_surface.height = root.surface.height
       /\ root.h_scroll = FZero => root.child_surface.x = FZero
       /\ root.v_scroll = FZero => root.child_surface.y = FZero
       /\ root.h_scroll = F(1) =>
            /\ root.child_surface.x = FSub(root.child_size[1], root.surface.width)
            /\ FAdd(root.child_surface.x, root.child_surface.width) = root.child_size[1]
       /\ root.v_scroll = F(1) =>
            /\ root.child_surface.y = FSub(root.child_size[2], root.surface.height)
            /\ FAdd(root.child_surface.y, root.child_surface.height) = root.child_size[2]

\* an update with the horizontal fraction at 1 and the vertical one at 0
C16_Witness ==
    /\ root.kind = "ScrollView" /\ last.call = "update" /\ last.ok
    /\ Scrollable(root)
    /\ root.h_scroll = F(1) /\ root.v_scroll = FZero
    /\ root.child_surface.x = F(20) /\ root.child_surface.y = FZero

\* v is a number from lo to hi
Between(v, lo, hi) == v # NaN /\ FLe(lo, v) /\ FLe(v, hi)

\* C17: on an axis whose content is larger than the viewport, the thumb is
\* max(30, 2 x viewport - content) long and starts at origin + fraction x
\* (viewport - length), which lies from origin to origin + viewport - length.
C17_ThumbInside ==
    root.kind = "ScrollView" =>
       /\ FLt(root.surface.width, root.child_size[1]) =>
            /\ HThumb(root).width
                 = FMax(F(30), FSub(FMul(F(2), root.surface.width), root.child_size[1]))
            /\ Between(HThumb(root).x, root.surface.x,
                       FAdd(root.surface.x, FSub(root.surface.width, HThumb(root).width)))
       /\ FLt(root.surface.height, root.child_size[2]) =>
            /\ VThumb(root).height
                 = FMax(F(30), FSub(FMul(F(2), root.surface.height), root.child_size[2]))
            /\ Between(VThumb(root).y, root.surface.y,
                       FAdd(root.surface.y, FSub(root.surface.height, VThumb(root).height)))

\* a viewport 20 high over a content 80 high, scrolled to the end
C17_Witness ==
    /\ root.kind = "ScrollView"
    /\ root.surface.height = F(20) /\ root.v_scroll = F(1)
    /\ VThumb(root).height = F(30)
    /\ FLt(VThumb(root).y, root.surface.y)

(***************************************************************************)
(* Properties of the frame drivers.                                        *)
(***************************************************************************)
\* the calls of the log that deliver an input event
IsInput(e) == e.k = "event" /\ e.ev.type = "KeyDown"

InputsUpTo(log, i) == Cardinality({j \in 1..i : IsInput(log[j])})

\* the index of the last draw before i, 0 when there is none
LastDrawBefore(log, i) ==
    IF \E j \in 1..(i - 1) : log[j].k = "draw"
    THEN CHOOSE j \in 1..(i - 1) : log[j].k = "draw" /\ \A m \in (j + 1)..(i - 1) : log[m].k # "draw"
    ELSE 0

\* C18: the driver's calls on the game, in order: ElementMove, then
\* ElementResize, then per iteration the input events in the order of their
\* arrival until the queue is found empty, then update once and draw once;
\* a draw comes only directly after the update of its iteration, a failed
\* call and a running that returned false are the last thing the driver did.
C18_FrameOrder ==
    root.kind = "Driver" =>
       /\ Len(root.log) >= 1 =>
            root.log[1].k = "event" /\ root.log[1].ev.type = "ElementMove"
       /\ Len(root.log) >= 2 =>
            root.log[2].k = "event" /\ root.log[2].ev.type = "ElementResize"
       /\ \A i \in 1..Len(root.log) :
            /\ IsInput(root.log[i]) => root.log[i].ev.n = InputsUpTo(root.log, i)
            /\ ("ok" \in DOMAIN root.log[i] /\ ~root.log[i].ok) => i = Len(root.log)
            /\ (root.log[i].k = "running" /\ ~root.log[i].v) =>
                 i = Len(root.log) /\ root.at = "done"
            /\ root.log[i].k = "draw" =>
                 i > 1 /\ root.log[i - 1].k = "update" /\ root.log[i - 1].ok
            /\ (root.log[i].k = "update" /\ root.log[i].ok /\ i < Len(root.log)) =>
                 root.log[i + 1].k = "draw"
            /\ root.log[i].k = "update" =>
                 /\ i > 2
                 /\ \A m \in (LastDrawBefore(root.log, i) + 1)..(i - 1) :
                       root.log[m].k # "update"
                 /\ \E p \in (LastDrawBefore(root.log, i) + 1)..(i - 1) :
                       /\ root.log[p].k = "polled"
                       /\ \A m \in (p + 1)..(i - 1) : ~IsInput(root.log[m])

\* two whole iterations with both input events delivered, the second one in
\* the second iteration, and the loop left by running
C18_Witness ==
    /\ root.kind = "Driver" /\ root.at = "done"
    /\ Cardinality({i \in 1..Len(root.log) : root.log[i].k = "draw"}) = 2
    /\ InputsUpTo(root.log, Len(root.log)) = 2
    /\ \E i \in 1..Len(root.log) :
          /\ IsInput(root.log[i]) /\ root.log[i].ev.n = 2
          /\ LastDrawBefore(root.log, i) > 0

(***************************************************************************)
(* Properties of the Grid's layout pass and of its ElementMove.            *)
(***************************************************************************)
\* the log holds a layout pass of the root that was not refused for space
HasPass(log) ==
    \E i \in 1..Len(log) : log[i].k = "reform" /\ log[i].to = <<>> /\ log[i].ok

\* the events of the log that went to a child of the root
ChildEvents(log) == {i \in 1..Len(log) : log[i].k = "event" /\ Len(log[i].to) = 1}

\* every closure the update drains leaves the grid as it is
OnlyNoOps(fs) == fs # <<>> /\ \A i \in 1..Len(fs) : fs[i] = NoOp

\* C19 (first half): in a layout pass run by ElementResize a child is sent
\* ElementMove only to a position that differs from the one it reported before
\* the pass, and ElementResize only to a size that differs.
C19_OnlyIfDiffers ==
    [][(root.kind = "Grid" /\ last'.call = "event" /\ last'.ev.type = "ElementResize")
        => \A i \in ChildEvents(last'.log) :
              /\ last'.log[i].ev.type = "ElementMove" =>
                    \/ root.elements[last'.log[i].to[1]].surface.x # last'.log[i].ev.x
                    \/ root.elements[last'.log[i].to[1]].surface.y # last'.log[i].ev.y
              /\ last'.log[i].ev.type = "ElementResize" =>
                    \/ root.elements[last'.log[i].to[1]].surface.width # last'.log[i].ev.width
                    \/ root.elements[last'.log[i].to[1]].surface.height # last'.log[i].ev.height]_vars

\* C19: a layout pass that directly follows a successful layout pass of the
\* same grid, with the same bounds and children and with no closure that
\* touches the column and row specs, sends no event to any child.
C19_SecondPassSilent ==
    [][(/\ root.kind = "Grid" /\ last.ok /\ HasPass(last.log)
        /\ last'.call = "update" /\ HasPass(last'.log)
        /\ OnlyNoOps(root.funcs \o last'.during))
        => ChildEvents(last'.log) = {}]_vars

\* an update that drained one closure changing nothing laid the 2:4:1 grid
\* of width 5 out again and sent a child a new size
C19_Witness ==
    /\ root.kind = "Grid" /\ root.surface.width = F(5) /\ Len(root.cols) = 3
    /\ last.call = "update" /\ last.ok /\ last.during = <<NoOp>>
    /\ HasPass(last.log)
    /\ \E i \in ChildEvents(last.log) : last.log[i].ev.type = "ElementResize"

PathsOf(g) ==
    {<<p>> : p \in DOMAIN g.elements}
    \cup UNION {{<<p, q>> : q \in DOMAIN g.elements[p].elements} :
                  p \in {k \in DOMAIN g.elements : g.elements[k].kind = "Grid"}}

\* C21: an event other than ElementMove and ElementResize sent to a Grid
\* leaves the grid's bounds, column and row specs and cell mapping as they
\* were, and every call it makes is that event, unchanged, on a child; when
\* the grid returns Ok every child, the ones outside the column and row
\* ranges and the ones of sub-grids included, has received it exactly once,
\* and when a child returned Err that call was the last.
C21_BroadcastToAll ==
    [][(/\ root.kind = "Grid" /\ last'.call = "event"
        /\ last'.ev.type \notin {"ElementMove", "ElementResize"}) =>
        /\ root' = root
        /\ \A i \in 1..Len(last'.log) :
              /\ last'.log[i].k = "event" /\ last'.log[i].ev = last'.ev
              /\ last'.log[i].to \in PathsOf(root)
              /\ ~last'.log[i].ok => i = Len(last'.log) /\ ~last'.ok
        /\ last'.ok =>
              \A path \in PathsOf(root) :
                 Cardinality({i \in 1..Len(last'.log) : last'.log[i].to = path}) = 1]_vars

\* a mouse wheel event went through the grid with a sub-grid and two stray
\* children: five children, five calls
C21_Witness ==
    /\ root.kind = "Grid" /\ Pos(3, 2) \in DOMAIN root.elements
    /\ root.surface.width = F(7)
    /\ last.call = "event" /\ last.ev.type = "MouseWheel" /\ last.ok
    /\ Len(last.log) = 5
    /\ \E i \in 1..5 : last.log[i].to = <<Pos(1, 0), Pos(5, 5)>>

(***************************************************************************)
(* Properties of the ScrollView's scroll fractions and scroll bars.        *)
(***************************************************************************)
\* a fraction of [0, 1]
InUnit(v) == FLe(FZero, v) /\ FLe(v, F(1))

\* C22: in every state of a ScrollView the horizontal and the vertical
\* scroll fraction are in [0, 1].
C22_FractionsInUnit ==
    root.kind = "ScrollView" => InUnit(root.h_scroll) /\ InUnit(root.v_scroll)

\* a drag on the horizontal thumb of a viewport exactly as wide as the
\* thumb's least length has left a fraction that is not a number
C22_Witness ==
    /\ root.kind = "ScrollView" /\ root.h_selected
    /\ root.surface.width = F(30)
    /\ root.h_scroll = NaN

(***************************************************************************)
(* Properties of one ScrollView call, checked under SpecBars: root is the  *)
(* ScrollView the call found, root' the one it left, last' the call.       *)
(***************************************************************************)
\* the content exceeds the viewport on the horizontal / vertical axis
HExceeds(s) == FLt(s.surface.width, s.child_size[1])

VExceeds(s) == FLt(s.surface.height, s.child_size[2])

\* clamp(fraction - 0.1 x delta, 0, 1)
WheelTarget(fraction, delta) ==
    IF fraction = NaN THEN NaN ELSE Clamp01(FSub(fraction, FMul(Tenth, delta)))

\* the remap of one coordinate: p the point, o and ext the viewport's origin
\* and extent, content the content's extent, wo and wext the visible window's
\* offset and extent
RemapAxis(p, o, ext, content, wo, wext) ==
    IF FLt(p, o) THEN FSub(p, o)
    ELSE IF FLt(FAdd(o, ext), p) THEN FAdd(content, FSub(FSub(p, o), ext))
    ELSE IF ext = FZero THEN NaN
    ELSE Plus(FMul(FDiv(FSub(p, o), ext), wext), wo)

RemapX(s, x) ==
    RemapAxis(x, s.surface.x, s.surface.width, s.child_size[1],
              s.child_surface.x, s.child_surface.width)

RemapY(s, y) ==
    RemapAxis(y, s.surface.y, s.surface.height, s.child_size[2],
              s.child_surface.y, s.child_surface.height)

\* C23: a MouseWheel sets the fraction of each axis whose content exceeds the
\* viewport to clamp(fraction - 0.1 x delta, 0, 1), leaves the fraction of
\* the other axes and both dragging flags as they were, and is sent on to the
\* child with the same deltas and the remapped point.
C23_Wheel ==
    [][(root.kind = "ScrollView" /\ last'.call = "event" /\ last'.ev.type = "MouseWheel") =>
        /\ root'.h_scroll = IF HExceeds(root)
                            THEN WheelTarget(root.h_scroll, last'.ev.scroll_x)
                            ELSE root.h_scroll
        /\ root'.v_scroll = IF VExceeds(root)
                            THEN WheelTarget(root.v_scroll, last'.ev.scroll_y)
                            ELSE root.v_scroll
        /\ root'.h_selected = root.h_selected /\ root'.v_selected = root.v_selected
        /\ Len(last'.log) = 1
        /\ last'.log[1].k = "event" /\ last'.log[1].to = <<1>>
        /\ last'.log[1].ev = [last'.ev EXCEPT !.mouse_x = RemapX(root, last'.ev.mouse_x),
                                              !.mouse_y = RemapY(root, last'.ev.mouse_y)]]_vars

\* a wheel event on a viewport wider than the content and lower than it
\* moved the vertical fraction inside (0, 1) and left the horizontal one
C23_Witness ==
    /\ root.kind = "ScrollView" /\ last.call = "event" /\ last.ev.type = "MouseWheel"
    /\ ~HExceeds(root) /\ VExceeds(root)
    /\ root.v_scroll = FDiv(F(1), F(2))
    /\ Len(last.log) = 1 /\ last.log[1].ok

\* a press of the left button
LeftDown(ev) == ev.type = "MouseButtonDown" /\ ev.mouse_btn = "Left"

\* the dragging flag the scroll bar state machine gives an axis: was is the
\* flag before the event, thumb the axis's thumb rectangle
DragAfter(was, thumb, ev) ==
    IF LeftDown(ev) THEN ContainsPoint(thumb, ev.x, ev.y)
    ELSE IF ev.type = "MouseButtonUp" THEN FALSE
    ELSE was

\* C24: on each axis whose content exceeds the viewport, a left
\* MouseButtonDown on the axis's thumb sets the axis's dragging flag, a
\* MouseButtonUp clears it, a left MouseButtonDown anywhere else clears it,
\* and no other event changes it.
C24_DragPerAxis ==
    [][(root.kind = "ScrollView" /\ last'.call = "event") =>
        /\ HExceeds(root) =>
              root'.h_selected = DragAfter(root.h_selected, HThumb(root), last'.ev)
        /\ VExceeds(root) =>
              root'.v_selected = DragAfter(root.v_selected, VThumb(root), last'.ev)]_vars

\* the horizontal half of C24, which the code keeps
C24_Horizontal ==
    [][(root.kind = "ScrollView" /\ last'.call = "event" /\ HExceeds(root)) =>
        root'.h_selected = DragAfter(root.h_selected, HThumb(root), last'.ev)]_vars

\* a left press that landed on the horizontal thumb and outside the vertical
\* one has left the vertical axis dragging
C24_Witness ==
    /\ root.kind = "ScrollView" /\ last.call = "event" /\ LeftDown(last.ev)
    /\ HExceeds(root) /\ VExceeds(root)
    /\ ContainsPoint(HThumb(root), last.ev.x, last.ev.y)
    /\ ~ContainsPoint(VThumb(root), last.ev.x, last.ev.y)
    /\ root.h_selected /\ root.v_selected

\* the ScrollViews that differ from s in the horizontal axis's state only
HVariants(s) ==
    {[s EXCEPT !.h_selected = b, !.h_scroll = f] :
        b \in BOOLEAN, f \in {s.h_scroll, FZero, F(1)}}

\* the ScrollViews that differ from s in the vertical axis's state only
VVariants(s) ==
    {[s EXCEPT !.v_selected = b, !.v_scroll = f] :
        b \in BOOLEAN, f \in {s.v_scroll, FZero, F(1)}}

\* C25: whatever the event, the vertical axis's dragging flag and fraction
\* after it are the same from two ScrollViews that differ in the horizontal
\* axis's dragging flag and fraction only, and the horizontal axis's the same
\* from two that differ in the vertical axis's only.
C25_AxesIndependent ==
    root.kind = "ScrollView" =>
        \A ev \in BarEvents :
           /\ \A t \in HVariants(root) :
                 /\ ScrollViewEvent(t, ev).w.v_selected = ScrollViewEvent(root, ev).w.v_selected
                 /\ ScrollViewEvent(t, ev).w.v_scroll = ScrollViewEvent(root, ev).w.v_scroll
           /\ \A t \in VVariants(root) :
                 /\ ScrollViewEvent(t, ev).w.h_selected = ScrollViewEvent(root, ev).w.h_selected
                 /\ ScrollViewEvent(t, ev).w.h_scroll = ScrollViewEvent(root, ev).w.h_scroll

\* a drag with both axes dragging has left the vertical fraction at 0 where
\* the same drag with the vertical axis alone dragging sets it to 0.75
C25_Witness ==
    /\ root.kind = "ScrollView" /\ last.call = "event" /\ last.ev.type = "MouseMotion"
    /\ root.h_selected /\ root.v_selected
    /\ root.v_scroll = FZero
    /\ ScrollViewEvent([root EXCEPT !.h_selected = FALSE], last.ev).w.v_scroll
          = FDiv(F(3), F(4))

\* the event the child is to receive for ev: the point of a mouse event
\* remapped, everything else as it is
RemapEvent(s, ev) ==
    CASE ev.type \in {"MouseMotion", "MouseButtonDown", "MouseButtonUp"} ->
           [ev EXCEPT !.x = RemapX(s, ev.x), !.y = RemapY(s, ev.y)]
      [] ev.type = "MouseWheel" ->
           [ev EXCEPT !.mouse_x = RemapX(s, ev.mouse_x), !.mouse_y = RemapY(s, ev.mouse_y)]
      [] OTHER -> ev

\* C26: what a ScrollView sends to its child for an event is one event: a
\* mouse motion, button or wheel event with its point remapped on each axis
\* (before the viewport: point - origin; after it: content + (point - origin
\* - extent); inside: (point - origin) / extent x window extent + window
\* offset) and its other fields unchanged, any other event unchanged.
C26_Remap ==
    [][(root.kind = "ScrollView" /\ last'.call = "event" /\ last'.log # <<>>) =>
        /\ Len(last'.log) = 1
        /\ last'.log[1].k = "event" /\ last'.log[1].to = <<1>>
        /\ last'.log[1].ev = RemapEvent(root, last'.ev)]_vars

\* a press inside a viewport scrolled to the right end: the child received
\* it 20 further right, where the visible window starts
C26_Witness ==
    /\ root.kind = "ScrollView" /\ last.call = "event" /\ LeftDown(last.ev)
    /\ root.surface.x = FZero /\ root.surface.width = F(80)
    /\ root.child_surface.x = F(20)
    /\ last.ev.x = F(5)
    /\ Len(last.log) = 1 /\ last.log[1].ev.x = F(25)

\* the child's event has been called with ev
ChildGot(log, i, ev) == log[i].k = "event" /\ log[i].to = <<1>> /\ log[i].ev = ev

\* C27: a ScrollView update that returns Ok has sent the child ElementMove
\* (0, 0) exactly when its position was not (0, 0), then ElementResize to the
\* content's size exactly when its size was not the content's, and has called
\* the child's update last, with the visible window set from the fractions;
\* the child's bounds are then (0, 0, content width, content height).  An
\* ElementMove or ElementResize sent to the ScrollView makes no call on the
\* child and leaves it as it was.
C27_Update ==
    [][(root.kind = "ScrollView") =>
        /\ (last'.call = "update" /\ last'.ok) =>
            /\ root'.child.surface =
                  [x |-> FZero, y |-> FZero,
                   width |-> root.child_size[1], height |-> root.child_size[2]]
            /\ \E m \in {IF root.child.surface.x # FZero \/ root.child.surface.y # FZero
                         THEN 1 ELSE 0} :
               \E r \in {IF root.child.surface.width # root.child_size[1]
                            \/ root.child.surface.height # root.child_size[2]
                         THEN 1 ELSE 0} :
                /\ Len(last'.log) = m + r + 1
                /\ m = 1 => ChildGot(last'.log, 1, ElementMove(FZero, FZero))
                /\ r = 1 => ChildGot(last'.log, m + 1,
                                     ElementResize(root.child_size[1], root.child_size[2]))
                /\ last'.log[m + r + 1].k = "update" /\ last'.log[m + r + 1].to = <<1>>
            /\ root'.child_surface =
                  [x |-> Scaled(root.h_scroll, FSub(root.child_size[1], root.surface.width)),
                   y |-> Scaled(root.v_scroll, FSub(root.child_size[2], root.surface.height)),
                   width |-> FMin(root.surface.width, root.child_size[1]),
                   height |-> FMin(root.surface.height, root.child_size[2])]
        /\ (last'.call = "event" /\ last'.ev.type \in {"ElementMove", "ElementResize"}) =>
            /\ last'.log = <<>>
            /\ root'.child = root.child]_vars

\* the first update of a ScrollView whose child was at (3, 4): a move, a
\* resize and the update, and the child is at (0, 0) with the content's size
C27_Witness ==
    /\ root.kind = "ScrollView" /\ last.call = "update" /\ last.ok
    /\ Len(last.log) = 3
    /\ ChildGot(last.log, 1, ElementMove(FZero, FZero))
    /\ root.surface.width = F(80)
    /\ root.child.surface = [x |-> FZero, y |-> FZero, width |-> F(100), height |-> F(80)]

(***************************************************************************)
(* Properties of one UIString call, checked under SpecBuffer.              *)
(***************************************************************************)
\* the buffer a call would leave if it were kept
Mutated(buf, c) ==
    CASE c.call = "insert" -> InsertAt(buf, c.index, c.arg)
      [] c.call = "drain" -> DrainRange(buf, c.index, c.index + c.arg)
      [] c.call = "remove" -> DrainRange(buf, c.index, c.index + 1)

\* the text a drain or a remove takes out
Removed28(buf, c) ==
    IF c.call = "drain" THEN SubSeq(buf, c.index + 1, c.index + c.arg)
    ELSE SubSeq(buf, c.index + 1, c.index + 1)

C29_NotEnabled ==
    [][(/\ root.kind \in {"TextBox", "UIRect"} /\ last'.call = "event"
        /\ root.state # "Enable"
        /\ last'.ev.type \notin {"ElementMove", "ElementResize"}) =>
        /\ root' = root
        /\ clipboard' = clipboard
        /\ last'.ok /\ last'.clicks = 0]_vars

\* a UIRect that shows without being enabled, hovered when it was, has been
\* pressed inside: its action was not called
C29_Witness ==
    /\ root.kind = "UIRect" /\ root.state = "Showing" /\ root.action = "Err"
    /\ root.hover
    /\ last.call = "event" /\ LeftDown(last.ev) /\ Hover(last.ev, root.surface)
    /\ last.ok /\ last.clicks = 0

\* a TextBox that is hidden, with a caret after its first character, has
\* been sent Backspace and holds its two characters
C29_BoxWitness ==
    /\ root.kind = "TextBox" /\ root.state = "Hidden"
    /\ root.selected = <<1>> /\ root.text = <<"v", "x">>
    /\ last.call = "event" /\ last.ev.type = "KeyDown" /\ last.ev.keycode = "Backspace"

(***************************************************************************)
(* Properties of Backspace and Delete, checked under SpecErase.            *)
(***************************************************************************)
\* the lesser and the greater of two indices
Lesser(a, b) == IF a < b THEN a ELSE b

Greater(a, b) == IF a < b THEN b ELSE a

\* what Backspace or Delete is to leave of the TextBox w
Erased(w, keycode) ==
    IF Len(w.selected) = 2
    THEN [w EXCEPT !.text = DrainRange(@, Lesser(w.selected[1], w.selected[2]),
                                       Greater(w.selected[1], w.selected[2])),
                   !.selected = <<Lesser(w.selected[1], w.selected[2])>>]
    ELSE IF keycode = "Backspace"
    THEN (IF w.selected[1] = 0 THEN w
          ELSE [w EXCEPT !.text = DrainRange(@, w.selected[1] - 1, w.selected[1]),
                         !.selected = <<w.selected[1] - 1>>])
    ELSE (IF w.selected[1] = Len(w.text) THEN w
          ELSE [w EXCEPT !.text = DrainRange(@, w.selected[1], w.selected[1] + 1)])

\* Backspace or Delete is pressed in an enabled TextBox whose selection lies
\* within its text
ErasePressed(w, call) ==
    /\ w.kind = "TextBox" /\ w.state = "Enable" /\ w.selected # <<>>
    /\ \A i \in 1..Len(w.selected) : w.selected[i] <= Len(w.text)
    /\ call.call = "event" /\ call.ev.type = "KeyDown"
    /\ call.ev.keycode \in {"Backspace", "Delete"}

\* C30: Backspace or Delete in an enabled TextBox with a range (a, e)
\* selected removes the characters of [min(a, e), max(a, e)) and leaves a
\* bare caret at min(a, e); with a bare caret at i, Backspace removes the
\* character at i - 1 and leaves the caret at i - 1 (nothing at i = 0) and
\* Delete removes the character at i and leaves the caret at i (nothing at
\* the end of the text).
C30_Erase ==
    [][ErasePressed(root, last') => root' = Erased(root, last'.ev.keycode)]_vars

\* C30 for a TextBox whose text fits the limit
C30_EraseFitting ==
    [][(ErasePressed(root, last') /\ string_size(root.text)) =>
        root' = Erased(root, last'.ev.keycode)]_vars

\* Backspace with a bare caret after the first character of a text that a
\* paste had left too wide: the TextBox is what it was
C30_Witness ==
    /\ last.call = "event"
    /\ ErasePressed(last.pre, last) /\ last.ev.keycode = "Backspace"
    /\ last.pre.selected = <<1>>
    /\ ~string_size(last.pre.text)
    /\ root = last.pre

(***************************************************************************)
(* Properties of one event in an enabled TextBox, checked under SpecKeys:  *)
(* last.pre is the TextBox the event found, last.clip the clipboard it     *)
(* found, root and clipboard what it left.                                 *)
(***************************************************************************)
\* the event of the last call was a KeyDown of keycode on a TextBox with a
\* selection
Pressed(keycode) ==
    /\ last.call = "event" /\ last.ev.type = "KeyDown" /\ "keycode" \in DOMAIN last.ev
    /\ last.ev.keycode = keycode
    /\ last.pre.selected # <<>>

\* the free end of a selection: the end of a range, the caret itself
FreeEnd(sel) == sel[Len(sel)]

\* one position from i in the direction of travel, within [0, len]
Travel(i, keycode, len) ==
    IF keycode = "Left" THEN (IF i = 0 THEN 0 ELSE i - 1)
    ELSE (IF i = len THEN len ELSE i + 1)

\* the selection Left or Right is to leave
Arrowed(w, keycode) ==
    IF w.shift
    THEN (IF Travel(FreeEnd(w.selected), keycode, Len(w.text)) = FreeEnd(w.selected)
          THEN w.selected
          ELSE IF Travel(FreeEnd(w.selected), keycode, Len(w.text)) = w.selected[1]
          THEN <<w.selected[1]>>
          ELSE <<w.selected[1], Travel(FreeEnd(w.selected), keycode, Len(w.text))>>)
    ELSE IF Len(w.selected) = 2
    THEN (IF keycode = "Left" THEN <<Lesser(w.selected[1], w.selected[2])>>
          ELSE <<Greater(w.selected[1], w.selected[2])>>)
    ELSE <<Travel(w.selected[1], keycode, Len(w.text))>>

\* Left and Right change the selection as stated and nothing else
ArrowStep ==
    \A k \in {"Left", "Right"} :
        Pressed(k) =>
            /\ root = [last.pre EXCEPT !.selected = Arrowed(last.pre, k)]
            /\ clipboard = last.clip

\* an enabled TextBox with shift held and a bare caret at one of carets:
\* Left and then Right leave it as it was
RoundTrip(carets) ==
    (/\ root.kind = "TextBox" /\ root.state = "Enable" /\ root.shift
     /\ Len(root.selected) = 1 /\ root.selected[1] \in carets) =>
        TextBoxEvent(TextBoxEvent(root, clipboard, KeyLeft).w, clipboard, KeyRight).w = root

\* C31: Left and Right without shift collapse a range to its lesser (Left)
\* or greater (Right) end and move a bare caret by one position within the
\* text; with shift the free end moves by one position within the text, the
\* anchor stays, and the range becomes a bare caret at the anchor when the
\* end reaches it; the buffer is unchanged.  Shift+Left and then shift+Right
\* restore a bare caret that is not at 0.
C31_Arrows == ArrowStep /\ RoundTrip(1..MaxLen)

\* C31 as stated: shift+Left and then shift+Right restore every bare caret
C31_AnyCaret == ArrowStep /\ RoundTrip(0..MaxLen)

\* shift+Right from the range (1, 0): the end reached the anchor and the
\* selection is the bare caret 1
C31_Witness ==
    /\ Pressed("Right") /\ last.pre.shift
    /\ last.pre.selected = <<1, 0>>
    /\ root.selected = <<1>>
    /\ root.text = last.pre.text /\ Len(root.text) = 2

\* the event of the last call was a KeyDown of keycode with ctrl held
CtrlPressed(keycode) ==
    /\ last.call = "event" /\ last.ev.type = "KeyDown" /\ "keycode" \in DOMAIN last.ev
    /\ last.ev.keycode = keycode
    /\ last.pre.ctrl

\* C32: a KeyDown of A with ctrl held in an enabled TextBox that has a
\* selection, whatever bare caret or range it is, leaves the range from 0 to
\* the length of the text selected and changes neither the text nor the
\* clipboard; a TextBox with no selection has no focus and stays as it is.
C32_SelectAll ==
    CtrlPressed("A") =>
        /\ clipboard = last.clip
        /\ root = IF last.pre.selected = <<>> THEN last.pre
                  ELSE [last.pre EXCEPT !.selected = <<0, Len(last.pre.text)>>]

\* Ctrl+A with a bare caret at the end of a text of two characters
C32_Witness ==
    /\ CtrlPressed("A") /\ last.pre.selected = <<2>>
    /\ root.selected = <<0, 2>> /\ root.text = last.pre.text

\* C or X is pressed with ctrl held in an enabled TextBox whose selection
\* lies within its text
CutPressed(w, call) ==
    /\ w.kind = "TextBox" /\ w.state = "Enable" /\ w.ctrl
    /\ \A i \in 1..Len(w.selected) : w.selected[i] <= Len(w.text)
    /\ call.call = "event" /\ call.ev.type = "KeyDown"
    /\ call.ev.keycode \in {"C", "X"}

\* the selection of w is a range that is not empty
RangeSelected(w) == Len(w.selected) = 2 /\ w.selected[1] # w.selected[2]

\* the characters of text from index lo up to hi, hi not included
Slice(text, lo, hi) == SubSeq(text, lo + 1, hi)

\* what Ctrl+C or Ctrl+X is to leave of the TextBox w
Cut(w, keycode) ==
    IF RangeSelected(w) /\ keycode = "X"
    THEN [w EXCEPT !.text = DrainRange(@, Lesser(w.selected[1], w.selected[2]),
                                       Greater(w.selected[1], w.selected[2])),
                   !.selected = <<Lesser(w.selected[1], w.selected[2])>>]
    ELSE w

\* what Ctrl+C or Ctrl+X is to leave in the clipboard
Copied(w, clip) ==
    IF RangeSelected(w)
    THEN Slice(w.text, Lesser(w.selected[1], w.selected[2]),
               Greater(w.selected[1], w.selected[2]))
    ELSE clip

\* C33: Ctrl+C with a range (a, e) that is not empty sets the clipboard to
\* the characters of [min(a, e), max(a, e)) and leaves text and selection as
\* they were; Ctrl+X sets the clipboard the same way, removes that range and
\* leaves a bare caret at min(a, e); with a bare caret, an empty range or no
\* selection both leave clipboard, text and selection as they were.
C33_CopyCut ==
    [][CutPressed(root, last') =>
        /\ root' = Cut(root, last'.ev.keycode)
        /\ clipboard' = Copied(root, clipboard)]_vars

\* C33 for a TextBox whose text fits the limit
C33_CopyCutFitting ==
    [][(CutPressed(root, last') /\ string_size(root.text)) =>
        /\ root' = Cut(root, last'.ev.keycode)
        /\ clipboard' = Copied(root, clipboard)]_vars

\* Ctrl+X on a range of one character of a text that a paste had left too
\* wide: the clipboard holds the character and the TextBox is what it was
C33_Witness ==
    /\ last.call = "event" /\ last.ev.type = "KeyDown" /\ last.ev.keycode = "X"
    /\ last.pre.ctrl /\ last.pre.selected = <<1, 2>>
    /\ ~string_size(last.pre.text)
    /\ clipboard = Slice(last.pre.text, 1, 2)
    /\ root = last.pre

\* where a paste goes in the TextBox w: the start of the range, the caret
PasteAt(w) == IF Len(w.selected) = 2 THEN Lesser(w.selected[1], w.selected[2])
              ELSE w.selected[1]

\* the text of w without its selected range
PasteBase(w) ==
    IF Len(w.selected) = 2
    THEN DrainRange(w.text, Lesser(w.selected[1], w.selected[2]),
                    Greater(w.selected[1], w.selected[2]))
    ELSE w.text

\* the number of leading characters of text that fit in w at the caret
FitLen(w, text) ==
    CHOOSE k \in 0..Len(text) :
        /\ k = 0 \/ string_size(InsertAt(PasteBase(w), PasteAt(w), SubSeq(text, 1, k)))
        /\ \A j \in (k + 1)..Len(text) :
              ~string_size(InsertAt(PasteBase(w), PasteAt(w), SubSeq(text, 1, j)))

\* what a paste of text is to leave of the TextBox w
Pasted(w, text) ==
    [w EXCEPT !.text = InsertAt(PasteBase(w), PasteAt(w), SubSeq(text, 1, FitLen(w, text))),
              !.selected = <<PasteAt(w) + FitLen(w, text)>>]

KeyX == Key("KeyDown", "X", <<"X">>)
KeyV == Key("KeyDown", "V", <<"V">>)

\* Ctrl+X and then Ctrl+V in the TextBox w
CutThenPaste(w, clip) ==
    TextBoxEvent(TextBoxEvent(w, clip, KeyX).w, TextBoxEvent(w, clip, KeyX).clip, KeyV)

\* C34: Ctrl+V in an enabled TextBox with a selection removes the selected
\* range, inserts the clipboard text at its start (at the caret when there
\* is no range) as far as it fits and leaves a bare caret right after the
\* inserted text; Ctrl+X on a range and then Ctrl+V leave the text the
\* TextBox had before the cut.
C34_Paste ==
    /\ (CtrlPressed("V") /\ last.pre.selected # <<>>) =>
          /\ root = Pasted(last.pre, last.clip)
          /\ clipboard = last.clip
    /\ (/\ root.kind = "TextBox" /\ root.state = "Enable" /\ root.ctrl
        /\ RangeSelected(root)) =>
          CutThenPaste(root, clipboard).w.text = root.text

\* Ctrl+V where the whole clipboard text, in the case the shift flag gives
\* it, fits: that text is inserted and the caret follows it
C34_PasteWhole ==
    (/\ CtrlPressed("V") /\ last.pre.selected # <<>>
     /\ string_size(InsertAt(PasteBase(last.pre), PasteAt(last.pre),
                             Cased(last.clip, last.pre.shift)))) =>
        /\ root = [last.pre EXCEPT
                     !.text = InsertAt(PasteBase(last.pre), PasteAt(last.pre),
                                       Cased(last.clip, last.pre.shift)),
                     !.selected = <<PasteAt(last.pre) + Len(last.clip)>>]
        /\ clipboard = last.clip

\* Ctrl+V of the clipboard "Xv" into an empty TextBox without shift: the
\* text is "xv"
C34_Witness ==
    /\ CtrlPressed("V") /\ last.pre.selected = <<0>> /\ ~last.pre.shift
    /\ last.pre.text = <<>> /\ last.clip = <<"X", "v">>
    /\ root.text = <<"x", "v">> /\ root.selected = <<2>>

\* the text a printable key of the model inserts
KeyText(ev) ==
    CASE ev.keycode = "Space" -> <<" ">>
      [] ev.keycode \in DOMAIN KeypadText -> <<KeypadText[ev.keycode]>>
      [] OTHER -> ev.scancode

\* the keys of the model that print, and the letters Ctrl makes a shortcut
Printables == {"A", "C", "X", "V", "Space", "KP_1"}

Shortcuts == {"A", "C", "X", "V"}

\* what a printable key is to leave of the TextBox w
Typed(w, text) ==
    [w EXCEPT !.text = InsertAt(PasteBase(w), PasteAt(w), Cased(text, w.shift)),
              !.selected = <<PasteAt(w) + Len(text)>>]

\* a KeyDown of one of keys reached a TextBox that has a selection
KeyCalled(keys) ==
    /\ last.call \in {"event", "panic"} /\ last.ev.type = "KeyDown"
    /\ "keycode" \in DOMAIN last.ev
    /\ last.ev.keycode \in keys
    /\ last.pre.selected # <<>>

\* a printable key without ctrl inserts its text in the case shift gives
TypedStep ==
    (KeyCalled(Printables) /\ ~last.pre.ctrl) =>
        /\ last.call = "event"
        /\ root = Typed(last.pre, KeyText(last.ev))
        /\ clipboard = last.clip

\* the shift keys set and clear the shift flag and nothing else
ShiftStep ==
    (/\ last.call \in {"event", "panic"} /\ last.ev.type \in {"KeyDown", "KeyUp"}
     /\ "keycode" \in DOMAIN last.ev
     /\ last.ev.keycode \in {"LShift", "RShift"}) =>
        /\ last.call = "event"
        /\ root = [last.pre EXCEPT !.shift = (last.ev.type = "KeyDown")]
        /\ clipboard = last.clip

\* with ctrl held a key that is not a shortcut inserts nothing
CtrlStep(keys) ==
    (KeyCalled(keys) /\ last.pre.ctrl) =>
        /\ last.call = "event"
        /\ root = last.pre
        /\ clipboard = last.clip

\* C35: a printable key pressed in an enabled TextBox with a selection
\* inserts its text, upper-cased when the shift flag is set and lower-cased
\* otherwise, in place of the selected range if there is one, and leaves a
\* bare caret after the inserted text; a KeyDown of LShift or RShift sets
\* the shift flag and a KeyUp of either clears it; with ctrl held a key that
\* is not a shortcut inserts nothing.
C35_Printable == TypedStep /\ ShiftStep /\ CtrlStep(Printables \ Shortcuts)

\* C35 for a text that still fits with the key's text in it
C35_TypedFitting ==
    (/\ KeyCalled(Printables)
     /\ ~last.pre.ctrl \/ last.ev.keycode \notin Shortcuts
     /\ string_size(Typed(last.pre, KeyText(last.ev)).text)) =>
        /\ last.call = "event"
        /\ root = Typed(last.pre, KeyText(last.ev))
        /\ clipboard = last.clip

\* the key V without ctrl at the caret 1 of the text "xx", which is full:
\* the text is "xvx", too wide, and the caret is still at 1
C35_Witness ==
    /\ KeyCalled({"V"}) /\ ~last.pre.ctrl /\ ~last.pre.shift
    /\ last.pre.text = <<"x", "x">> /\ last.pre.selected = <<1>>
    /\ root.text = <<"x", "v", "x">> /\ root.selected = <<1>>

\* the whole number a coordinate of the model stands for
Whole(f) == CHOOSE n \in 0..16 : F(n) = f

\* how far the position x is from the left edge of index n of the text of w,
\* in units of 1 / (surface.width * size_of(text))
Away(w, x, n) ==
    Abs((Whole(x) - Whole(w.surface.x)) * size_of(w.text)
        - size_of(SubSeq(w.text, 1, n)) * Whole(w.surface.width))

\* the indices of the text of w nearest the position x
Nearest(w, x) ==
    {n \in 0..Len(w.text) : \A k \in 0..Len(w.text) : Away(w, x, n) <= Away(w, x, k)}

\* a mouse event of the given type reached the TextBox
MouseCalled(type) == last.call = "event" /\ last.ev.type = type

\* C36: in an enabled TextBox a left MouseButtonDown inside the bounds
\* leaves a bare caret at the index nearest the click, or with shift held
\* and a selection present keeps the anchor and sets the end to that index;
\* a MouseMotion inside the bounds with the left button held and a
\* selection present keeps the anchor and sets the end to the index under
\* the pointer; a MouseButtonDown outside the bounds leaves no selection;
\* none of them changes the text.
C36_Mouse ==
    /\ (/\ MouseCalled("MouseButtonDown") /\ Hover(last.ev, last.pre.surface)
        /\ last.ev.mouse_btn = "Left") =>
          \E n \in Nearest(last.pre, last.ev.x) :
              root = [last.pre EXCEPT
                        !.selected = IF last.pre.shift /\ last.pre.selected # <<>>
                                     THEN <<last.pre.selected[1], n>> ELSE <<n>>]
    /\ (/\ MouseCalled("MouseMotion") /\ Hover(last.ev, last.pre.surface)
        /\ last.ev.left /\ last.pre.selected # <<>>) =>
          \E n \in Nearest(last.pre, last.ev.x) :
              root = [last.pre EXCEPT !.selected = <<last.pre.selected[1], n>>]
    /\ (MouseCalled("MouseButtonDown") /\ ~Hover(last.ev, last.pre.surface)) =>
          root = [last.pre EXCEPT !.selected = <<>>]
    /\ (MouseCalled("MouseButtonDown") \/ MouseCalled("MouseMotion")) =>
          /\ root.text = last.pre.text
          /\ clipboard = last.clip

\* a left click with shift held at 7 of the 8 wide TextBox "xX" whose caret
\* is at 0: the range (0, 2) is selected
C36_Witness ==
    /\ MouseCalled("MouseButtonDown") /\ last.ev.mouse_btn = "Left"
    /\ last.ev.x = F(7) /\ last.pre.shift
    /\ last.pre.text = <<"x", "X">> /\ last.pre.selected = <<0>>
    /\ root.selected = <<0, 2>>

\* a drag to 5 in the TextBox "vx" whose range is (2, 0): the range is (2, 1)
C36_DragWitness ==
    /\ MouseCalled("MouseMotion") /\ last.ev.left /\ last.ev.x = F(5)
    /\ last.pre.text = <<"v", "x">> /\ last.pre.selected = <<2, 0>>
    /\ root.selected = <<2, 1>>

\* a right MouseButtonDown outside the bounds of a TextBox with a range
\* selected: no selection is left
C36_OutsideWitness ==
    /\ MouseCalled("MouseButtonDown") /\ last.ev.mouse_btn = "Right"
    /\ ~Hover(last.ev, last.pre.surface) /\ Len(last.pre.selected) = 2
    /\ root.selected = <<>>

\* the KeyDown events of KeyEvents
KeyDowns == {ev \in KeyEvents : ev.type = "KeyDown"}

\* the TextBox w after a MouseButtonDown at 9, outside its 8 wide bounds
ClickedOutside(w, clip) == TextBoxEvent(w, clip, MouseButtonDown(F(9), F(1))).w

\* C40: a TextBox with no selection, a new one or one after a
\* MouseButtonDown outside its bounds, keeps its text and stays without
\* selection under every KeyDown, a printable key, Backspace, an arrow or a
\* Ctrl shortcut; only its shift and ctrl flags can change.
C40_NoSelection ==
    /\ (/\ last.call \in {"event", "panic"} /\ last.ev.type = "KeyDown"
        /\ last.pre.selected = <<>>) =>
          /\ last.call = "event"
          /\ root = [last.pre EXCEPT !.shift = root.shift, !.ctrl = root.ctrl]
          /\ clipboard = last.clip
    /\ (root.kind = "TextBox" /\ Whole(root.surface.x) + Whole(root.surface.width) < 9) =>
          /\ ClickedOutside(root, clipboard).selected = <<>>
          /\ \A ev \in KeyDowns :
                \E r \in {TextBoxEvent(ClickedOutside(root, clipboard), clipboard, ev)} :
                    /\ ~r.panic
                    /\ r.w = [root EXCEPT !.selected = <<>>, !.shift = r.w.shift,
                                          !.ctrl = r.w.ctrl]
                    /\ r.clip = clipboard

\* Ctrl+V with a clipboard that is not empty in a TextBox that has a text
\* and no selection: nothing changes
C40_Witness ==
    /\ last.call = "event" /\ last.ev.type = "KeyDown" /\ last.ev.keycode = "V"
    /\ last.pre.selected = <<>> /\ last.pre.ctrl /\ last.clip # <<>>
    /\ last.pre.text # <<>>
    /\ root = last.pre

\* a MouseButtonDown outside left a TextBox whose text is too full for a
\* key at its end without selection
C40_OutsideWitness ==
    /\ MouseCalled("MouseButtonDown") /\ ~Hover(last.ev, last.pre.surface)
    /\ last.pre.selected = <<2>> /\ Len(last.pre.text) = 2
    /\ root.selected = <<>>
    /\ TextBoxEvent(root, clipboard, KeyV).w = root

\* the point of the mouse event ev lies on the thumb of an axis of the
\* ScrollView s whose content exceeds the viewport
OnThumb(s, ev) ==
    \/ HExceeds(s) /\ ContainsPoint(HThumb(s), ev.x, ev.y)
    \/ VExceeds(s) /\ ContainsPoint(VThumb(s), ev.x, ev.y)

\* an axis of s whose content exceeds the viewport is dragging
Dragging(s) ==
    \/ HExceeds(s) /\ s.h_selected
    \/ VExceeds(s) /\ s.v_selected

\* the events the ScrollView s keeps to itself
Consumed(s, ev) ==
    \/ LeftDown(ev) /\ OnThumb(s, ev)
    \/ ev.type = "MouseMotion" /\ ev.left /\ Dragging(s)

\* C39: a left MouseButtonDown on the thumb of an axis whose content
\* exceeds the viewport, and a MouseMotion with the left button held while
\* such an axis is dragging, make no call on the child; every other event
\* that is not ElementMove or ElementResize, every MouseButtonUp and every
\* left MouseButtonDown off both thumbs among them, makes exactly one call
\* of the child's event; so does a MouseMotion without the left button,
\* dragging or not.
C39_Consumes ==
    [][/\ (/\ root.kind = "ScrollView" /\ last'.call = "event"
           /\ last'.ev.type \notin {"ElementMove", "ElementResize"}) =>
            IF Consumed(root, last'.ev)
            THEN last'.log = <<>> /\ root'.child = root.child
            ELSE /\ Len(last'.log) = 1
                 /\ last'.log[1].k = "event" /\ last'.log[1].to = <<1>>
       /\ root'.kind = "ScrollView" =>
            \A ev \in {MouseMotion(F(25), F(35), FALSE)} :
                /\ ~Consumed(root', ev)
                /\ Len(ScrollViewEvent(root', ev).log) = 1]_vars

\* a MouseMotion with the left button held while the vertical axis is
\* dragging: the fraction moved and the child was not called
C39_Witness ==
    /\ root.kind = "ScrollView" /\ last.call = "event"
    /\ last.ev.type = "MouseMotion" /\ last.ev.left
    /\ VExceeds(root) /\ root.v_selected
    /\ root.v_scroll \notin {FZero, NaN}
    /\ last.log = <<>>

\* a left MouseButtonDown that started a drag made no call on the child
C39_DownWitness ==
    /\ root.kind = "ScrollView" /\ last.call = "event" /\ LeftDown(last.ev)
    /\ VExceeds(root) /\ root.v_selected
    /\ last.log = <<>>

\* a MouseButtonUp that ended a drag was sent to the child
C39_UpWitness ==
    /\ root.kind = "ScrollView" /\ last.call = "event"
    /\ last.ev.type = "MouseButtonUp"
    /\ root.h_scroll # FZero /\ ~root.h_selected
    /\ Len(last.log) = 1

\* the Px columns of g need more than width or its Px rows more than height
TooSmall(g, width, height) ==
    \/ FLt(width, StaticOf(g.cols))
    \/ FLt(height, StaticOf(g.rows))

\* C37: an ElementResize of a Grid to a new size that its Px columns or
\* rows exceed returns Err, makes no call on any child and leaves every
\* child as it was, while the grid's bounds hold the new size; an
\* ElementResize to that size again then returns Ok, runs no layout and
\* changes nothing.
C37_ResizeFails ==
    [][(/\ root.kind = "Grid" /\ last'.call = "event"
        /\ last'.ev.type = "ElementResize"
        /\ last'.ev.width # root.surface.width \/ last'.ev.height # root.surface.height
        /\ TooSmall(root, last'.ev.width, last'.ev.height)) =>
        /\ ~last'.ok
        /\ \A i \in 1..Len(last'.log) : last'.log[i].k = "reform"
        /\ root'.elements = root.elements
        /\ root'.surface = [root.surface EXCEPT !.width = last'.ev.width,
                                                !.height = last'.ev.height]
        /\ \E r \in {WEvent(root', last'.ev, <<>>)} :
              r.ok /\ r.log = <<>> /\ r.w = root']_vars

\* the grid of Px columns 2 and 3 laid out in 7 x 7 and resized to 3 x 7:
\* Err, and its children are where the 7 x 7 layout put them
C37_Witness ==
    /\ root.kind = "Grid" /\ last.call = "event" /\ ~last.ok
    /\ last.ev = ElementResize(F(3), F(7))
    /\ root.surface.width = F(3)
    /\ Len(root.cols) = 2 /\ root.cols[2] = Px(3)
    /\ root.elements[Pos(1, 1)].surface.x = F(2)
    /\ root.elements[Pos(1, 1)].surface.width = F(3)

\* the second ElementResize to 3 x 7 in a row returned Ok without a layout
C37_AgainWitness ==
    /\ root.kind = "Grid" /\ last.call = "event" /\ last.ok
    /\ last.ev = ElementResize(F(3), F(7)) /\ last.rep = 2
    /\ TooSmall(root, root.surface.width, root.surface.height)
    /\ last.log = <<>>

\* the closures the last update found queued and those queued during it
Drained == last.pre \o last.during

\* the index of the first closure of q that returns Err, 0 if there is none
FirstFail(q) ==
    IF \E i \in 1..Len(q) : q[i].kind = "fail"
    THEN CHOOSE i \in 1..Len(q) :
            q[i].kind = "fail" /\ \A j \in 1..(i - 1) : q[j].kind # "fail"
    ELSE 0

\* the closures the last call on the root ran, in the order it ran them
RanOf(log) == SelectSeq(log, LAMBDA e : e.k = "run" /\ e.to = <<>>)

\* C38: when a queued closure returns Err, the update of the container
\* returns Err at once: the closures up to and including the failing one
\* were run in queue order and are off the queue, those queued after it
\* were not run and are still queued in their order, and a Grid's layout
\* is not run, although the closures before the failing one have run and
\* left what they changed.
C38_ApplyError ==
    (last.call = "update" /\ FirstFail(Drained) > 0) =>
        /\ ~last.ok
        /\ [i \in 1..Len(RanOf(last.log)) |-> RanOf(last.log)[i].func]
              = SubSeq(Drained, 1, FirstFail(Drained))
        /\ root.funcs = SubSeq(Drained, FirstFail(Drained) + 1, Len(Drained))
        /\ \A i \in 1..Len(last.log) : last.log[i].k # "reform"
        /\ root.kind = "Grid" =>
              Len(root.cols) >= 2 + Cardinality({i \in 1..(FirstFail(Drained) - 1) :
                                                    Drained[i].kind = "pushcol"})

\* an update of the grid found a closure that adds a column, a failing one
\* and a third queued: the column is there, no child has been laid out, and
\* the third is still queued
C38_Witness ==
    /\ root.kind = "Grid" /\ last.call = "update" /\ ~last.ok
    /\ Len(last.pre) = 3
    /\ last.pre[1].kind = "pushcol" /\ last.pre[2].kind = "fail"
    /\ root.funcs = <<last.pre[3]>>
    /\ Len(root.cols) = 3
    /\ \A p \in DOMAIN root.elements : root.elements[p].surface = zero

=============================================================================
